---------------------------- MODULE Spec2Model ----------------------------
(* Model of the MADORO CODE agent loop (src/src/agent.py) and of the tool   *)
(* executor (src/src/tools.py).                                             *)
(*                                                                          *)
(* Spec      : one Agent.process() turn after another.                      *)
(* ToolSpec  : ToolExecutor.execute() calls against a small project tree.   *)
EXTENDS Integers, Sequences, FiniteSets, TLC

VARIABLES
    \* ---- Agent.process (agent.py) ----
    pc,                \* position of process(): see AgentPcs
    iteration,         \* the for-loop variable of agent.py:110 (rounds completed)
    tool_calls,        \* response.tool_calls still to dispatch in this round
    all_tool_results,  \* agent.py:107
    final_response,    \* agent.py:108: None, "" or a text
    genOutcomes,       \* history: outcome of each generate_with_tools call of the turn
    sumGenCalls,       \* history: number of tool-free generate calls of the turn
    turnLog,           \* history: roles appended by memory.add_turn in this turn
    response,          \* what process() handed back: "none", "message", "error", "exception"
    workLog,           \* history: the CHAT rows log_work wrote in this turn (agent.py:202-211)
    roundBase,         \* history: Len(all_tool_results) when the current round began
    \* ---- ToolExecutor (tools.py) ----
    fs,                    \* the files on disk: resolved path -> content, or Absent
    ssot_approval_callback,\* tools.py:50: is a callback registered?
    pending_ssot_changes,  \* tools.py:52
    last,                  \* history: the last execute() call, its effects and its result
    \* ---- MemoryStore (memory.py) ----
    conversation_turns,    \* rows of the table: [id, timestamp]
    max_turns,             \* memory.py:77, 83
    next_id,               \* the id AUTOINCREMENT gives the next row (memory.py:144)
    clock,                 \* what datetime.now() returns
    adds,                  \* history: add_turn calls since max_turns was last set or the table cleared
    retrieved,             \* history: ids of the last get_recent_turns result, in order
    \* ---- SSOTApprovalBridge, LLMWorker, ChatWindow (ui/chat_window.py) ----
    workers,               \* each LLMWorker thread: its position, the requests it made, the
                           \* event it waits on, and whether its last wait timed out
    pending_approval,      \* chat_window.py:71
    approval_result,       \* chat_window.py:72
    approval_event,        \* chat_window.py:73: the current Event object, by the request that created it
    eventsSet,             \* the Event objects that are set
    signals,               \* queued ssot_approval_needed emissions
    dialogs,               \* open approval dialogs, innermost last: the request each one shows
    mainPc,                \* position of the main thread inside set_result
    inputEnabled,          \* chat_window.py:1140-1141, 1208-1209
    deposits,              \* history: decisions assigned by set_result since the last reset of approval_result
    depositInfo,           \* history: for each of them, the request it was taken on
    returned,              \* history: the last return of request_approval
    \* ---- LLMClient._parse_tool_calls (llm.py) ----
    reply,                 \* the content handed to _parse_tool_calls, fragment by fragment
    parsed,                \* what _parse_tool_calls did with it
    \* ---- the callers of CodingAgent.process (cli.py, ui/chat_window.py) ----
    caller,                \* "cli" (cmd_chat) or "desktop" (LLMWorker and ChatWindow)
    agent_response,        \* what process() did: the AgentResponse it returned, or the exception it raised
    callerPc,              \* "called" (process is over), "emitted" (a signal of LLMWorker is queued), "done"
    emitted,               \* the queued signal of LLMWorker.run
    displayed,             \* what the caller has shown to the user, in order
    \* ---- CodingAgent._build_prompt (agent.py) ----
    tool_results,          \* the tool_results argument: the results of the turn so far
    prompt,                \* the parts of the prompt built from it, in order
    \* ---- ToolExecutor._validate_project_scope on its own (tools.py) ----
    scope_root,            \* where the project root is: its resolved segments
    scope_path,            \* the path argument
    scope_verdict,         \* what the check answered
    \* ---- ToolExecutor._apply_unified_diff on its own (tools.py) ----
    diff_original,         \* the file before the patch
    diff_given,            \* the diff of the file entry
    diff_outcome,          \* what the diff branch of _apply_patch left in the file
    \* ---- MemoryStore: the issues table (memory.py) ----
    issue_rows,            \* the rows of the table; the row of id i is the i-th
    issue_clock,           \* the next reading of datetime.now()
    \* ---- ContextBuilder and ContextPack (context.py) ----
    ctx_env,               \* what build found: documents, configuration, store, git
    ctx_outcome,           \* how build ended, or the pack that was constructed
    ctx_prompt             \* the lines to_prompt joined

agentVars == <<pc, iteration, tool_calls, all_tool_results, final_response,
               genOutcomes, sumGenCalls, turnLog, response, workLog, roundBase>>

toolVars == <<fs, ssot_approval_callback, pending_ssot_changes, last>>

memoryVars == <<conversation_turns, max_turns, next_id, clock, adds, retrieved>>

\* What the actions of the agent loop and of the tool executor leave alone
bridgeVars == <<workers, pending_approval, approval_result, approval_event, eventsSet,
               signals, dialogs, mainPc, inputEnabled, deposits, depositInfo, returned>>

parserVars == <<reply, parsed>>

callerVars == <<caller, agent_response, callerPc, emitted, displayed>>

promptVars == <<tool_results, prompt>>

scopeVars == <<scope_root, scope_path, scope_verdict>>

\* The groups of the pure functions checked on their own
diffVars == <<diff_original, diff_given, diff_outcome>>

issueVars == <<issue_rows, issue_clock>>

contextVars == <<ctx_env, ctx_outcome, ctx_prompt>>

laterVars == <<scopeVars, diffVars, issueVars, contextVars>>

earlierVars == <<agentVars, toolVars, memoryVars, bridgeVars, parserVars,
                 callerVars, promptVars>>

\* What the actions of one of these groups leave alone
besidesScope == <<earlierVars, diffVars, issueVars, contextVars>>
besidesDiff == <<earlierVars, scopeVars, issueVars, contextVars>>
besidesIssues == <<earlierVars, scopeVars, diffVars, contextVars>>
besidesContext == <<earlierVars, scopeVars, diffVars, issueVars>>

otherVars == <<memoryVars, bridgeVars, parserVars, callerVars, promptVars, laterVars>>

vars == <<agentVars, toolVars, otherVars>>

-----------------------------------------------------------------------------
(* Bounds of the model *)
MaxCalls == 2          \* tool calls in one model response
MaxResults == 6        \* tool results recorded in one turn
MaxPending == 1        \* queued PendingSSOTChange entries
MaxTurnsBound == 2     \* largest max_turns setting
MaxAdds == 4           \* add_turn calls on one table
MaxClock == 3          \* distinct readings of the wall clock
MaxRequests == 2       \* approval requests of one session
MaxFragments == 3      \* fragments of one model reply
MaxPromptResults == 4  \* tool results handed to _build_prompt
MaxSegments == 2       \* segments of a path handed to _validate_project_scope
MaxLines == 3          \* lines of a file patched with a diff
MaxChanges == 2        \* change lines of a hunk
MaxIssues == 4         \* rows of the issues table
MaxIssueCalls == 5     \* create_issue and resolve_issue calls on one table
MaxPackEntries == 4    \* turns, and issues, of a store or of a pack

(* agent.py:73 *)
MAX_ITERATIONS == 5

None == "None"

-----------------------------------------------------------------------------
(* ToolExecutor.execute, tools.py:54-98, as a function of what can differ   *)
(* between two calls: the tool name, what the handler does, and whether the *)
(* two log_work calls (line 79 in the try block, line 87 in the except      *)
(* block) succeed.                                                          *)

\* tools.py:56-66
Handlers == {"read_file", "search", "apply_patch", "run_tests", "list_files",
             "get_diff", "update_ssot", "git_commit", "git_push"}

\* A tool value that is not hashable (a JSON list or object): dict.get raises TypeError.
Unhashable == "<unhashable>"

HandlerOutcomes == {"success", "fail", "raise"}

\* A ToolResult that would carry an error text whatever its success.
ToolResultWithErrorText(success, hasError, logged) ==
    [kind |-> "result", success |-> success, error |-> TRUE, logged |-> logged]

\* The result of execute: a ToolResult (kind "result") or an exception that
\* leaves execute (kind "exception"); logged = result column of the WorkLog
\* row written, "" when none was written.
ToolResult(success, hasError, logged) ==
    [kind |-> "result", success |-> success, error |-> hasError, logged |-> logged]

Propagates(logged) ==
    [kind |-> "exception", success |-> FALSE, error |-> TRUE, logged |-> logged]

\* An execute that would look up nothing and call a handler for any name.
ExecuteWithoutLookup(name, h, handlerHasError, log1, log2) ==
    IF h # "raise" /\ log1
    THEN ToolResult(h = "success", handlerHasError,
                    IF h = "success" THEN "SUCCESS" ELSE "FAIL")
    ELSE IF log2 THEN ToolResult(FALSE, TRUE, "FAIL")
    ELSE Propagates("")

Execute(name, h, handlerHasError, log1, log2) ==
    IF name = Unhashable THEN Propagates("")                       \* line 68
    ELSE IF name \notin Handlers THEN ToolResult(FALSE, TRUE, "")  \* lines 69-74
    ELSE IF h # "raise" /\ log1                                       \* lines 77-85
         THEN ToolResult(h = "success", handlerHasError,
                         IF h = "success" THEN "SUCCESS" ELSE "FAIL")
    ELSE IF log2 THEN ToolResult(FALSE, TRUE, "FAIL")              \* lines 86-98
    ELSE Propagates("")                                            \* line 87 raises

-----------------------------------------------------------------------------
(* Agent.process, agent.py:91-216 *)

AgentPcs == {"idle", "AwaitingModel", "Dispatch", "AutoTest", "Summarizing",
             "returned"}

\* A parsed tool call (llm.py:416-430 accepts any JSON object with a "tool"
\* key): its tool value, and whether its args value has the types the tool
\* expects (a mapping, with a text path or a list of files); {"args": null} and
\* {"args": {"path": null}} have not.
AgentTools == {"apply_patch", "get_diff", Unhashable}
Calls == [tool : AgentTools, argsWellTyped : BOOLEAN]

Responses == UNION {[1..n -> Calls] : n \in 1..MaxCalls}

\* agent.py:218-235: args.get(...)[:50] and len(files) raise on such an args
\* value, for the tools whose branch reads args that way; the branch of
\* get_diff and the fall-through for other names do not read it (the branch
\* of search raises only when args is no mapping at all).
GetToolDetailRaises(call) ==
    /\ call.tool \in {"read_file", "apply_patch", "run_tests", "list_files"}
    /\ ~call.argsWellTyped

\* agent.py:147-153 / 172-176
Entry(tool, success) == [tool |-> tool, success |-> success]

\* agent.py:156-157
AnyPatchSucceeded(results) ==
    \E i \in 1..Len(results) : results[i].tool = "apply_patch" /\ results[i].success

AgentInit ==
    /\ pc = "idle"
    /\ iteration = 0
    /\ tool_calls = <<>>
    /\ all_tool_results = <<>>
    /\ final_response = None
    /\ genOutcomes = <<>>
    /\ sumGenCalls = 0
    /\ turnLog = <<>>
    /\ response = "none"
    /\ workLog = <<>>
    /\ roundBase = 0

\* A process() that would not record the user turn.
StartTurnUnrecorded ==
    /\ pc \in {"idle", "returned"}
    /\ pc' = "AwaitingModel"
    /\ iteration' = 0
    /\ tool_calls' = <<>>
    /\ all_tool_results' = <<>>
    /\ final_response' = None
    /\ genOutcomes' = <<>>
    /\ sumGenCalls' = 0
    /\ turnLog' = <<>>
    /\ response' = "none"
    /\ workLog' = <<>>
    /\ roundBase' = 0
    /\ UNCHANGED <<toolVars, otherVars>>

\* agent.py:91-108: a new call of process(); the user turn is recorded first.
StartTurn ==
    /\ pc \in {"idle", "returned"}
    /\ pc' = "AwaitingModel"
    /\ iteration' = 0
    /\ tool_calls' = <<>>
    /\ all_tool_results' = <<>>
    /\ final_response' = None
    /\ genOutcomes' = <<>>
    /\ sumGenCalls' = 0
    /\ turnLog' = <<"user">>                                          \* line 96
    /\ response' = "none"
    /\ workLog' = <<>>
    /\ roundBase' = 0
    /\ UNCHANGED <<toolVars, otherVars>>

\* agent.py:202-211: the row log_work writes for the turn
ChatLog(results) == [action |-> "CHAT", tool_calls |-> Len(results)]

\* agent.py:196-216: record the assistant turn, log the turn, return.
Finish(text) ==
    /\ pc' = "returned"
    /\ final_response' = text
    /\ turnLog' = Append(turnLog, "assistant")                         \* line 199
    /\ workLog' = Append(workLog, ChatLog(all_tool_results))           \* lines 202-211
    /\ response' = "message"

\* A loop that would swallow the failure and ask the model again.
AbortTurnRetrying ==
    /\ pc' = "AwaitingModel"
    /\ response' = "none"
    /\ UNCHANGED <<final_response, turnLog, workLog>>

\* An abort that would log the turn like a completed one.
AbortTurnLogging ==
    /\ pc' = "returned"
    /\ response' = "error"
    /\ workLog' = Append(workLog, ChatLog(all_tool_results))
    /\ UNCHANGED <<final_response, turnLog>>

\* agent.py:126-131
AbortTurn ==
    /\ pc' = "returned"
    /\ response' = "error"
    /\ UNCHANGED <<final_response, turnLog, workLog>>

\* agent.py:119-131: generate_with_tools raises.
GenerateFails ==
    /\ pc = "AwaitingModel"
    /\ genOutcomes' = Append(genOutcomes, "raise")
    /\ AbortTurn
    /\ UNCHANGED <<iteration, tool_calls, all_tool_results, sumGenCalls, roundBase,
                   toolVars, otherVars>>

\* agent.py:179-184: the break leaves the loop; line 184 tests the truth value of
\* final_response, so an empty content falls through to the summary call.
AfterLoopBreak(content) ==
    IF content = ""
    THEN /\ pc' = "Summarizing"
         /\ final_response' = content
         /\ UNCHANGED <<turnLog, response, workLog>>
    ELSE Finish(content)

\* agent.py:119-125, 179-182: a response without tool calls.
GenerateFinal ==
    /\ pc = "AwaitingModel"
    /\ \E content \in {"", "text"} :
          /\ genOutcomes' = Append(genOutcomes, "no_tools")
          /\ AfterLoopBreak(content)
    /\ UNCHANGED <<iteration, tool_calls, all_tool_results, sumGenCalls, roundBase,
                   toolVars, otherVars>>

\* agent.py:119-125, 134: a response with tool calls.
GenerateTools ==
    /\ pc = "AwaitingModel"
    /\ \E calls \in Responses :
          /\ Len(all_tool_results) + Len(calls) + 1 <= MaxResults
          /\ tool_calls' = calls
    /\ genOutcomes' = Append(genOutcomes, "tools")
    /\ pc' = "Dispatch"
    /\ UNCHANGED <<iteration, all_tool_results, final_response, sumGenCalls,
                   turnLog, response, workLog, roundBase, toolVars, otherVars>>

\* An exception leaves process(): nothing after the raising line runs.
Raise ==
    /\ pc' = "returned"
    /\ response' = "exception"
    /\ UNCHANGED <<iteration, tool_calls, all_tool_results, final_response,
                   genOutcomes, sumGenCalls, turnLog, workLog, roundBase>>

\* A for loop that would drop the remaining calls after a failed one.
RecordAndStop(call, result) ==
    /\ all_tool_results' = Append(all_tool_results, Entry(call.tool, result.success))
    /\ tool_calls' = IF result.success THEN Tail(tool_calls) ELSE <<>>
    /\ pc' = IF tool_calls' = <<>> THEN "AutoTest" ELSE "Dispatch"
    /\ UNCHANGED <<iteration, final_response, genOutcomes, sumGenCalls, turnLog,
                   response, workLog, roundBase>>

\* A loop that would put the newest result in front of the list.
RecordInFront(call, result) ==
    /\ all_tool_results' = <<Entry(call.tool, result.success)>> \o all_tool_results
    /\ tool_calls' = Tail(tool_calls)
    /\ pc' = IF Tail(tool_calls) = <<>> THEN "AutoTest" ELSE "Dispatch"
    /\ UNCHANGED <<iteration, final_response, genOutcomes, sumGenCalls, turnLog,
                   response, workLog, roundBase>>

\* agent.py:147-153 and the for statement of line 135.
RecordAndContinue(call, result) ==
    /\ all_tool_results' = Append(all_tool_results, Entry(call.tool, result.success))
    /\ tool_calls' = Tail(tool_calls)
    /\ pc' = IF Tail(tool_calls) = <<>> THEN "AutoTest" ELSE "Dispatch"
    /\ UNCHANGED <<iteration, final_response, genOutcomes, sumGenCalls, turnLog,
                   response, workLog, roundBase>>

\* agent.py:135-153: one pass of the for loop over response.tool_calls.
DispatchTool ==
    /\ pc = "Dispatch"
    /\ tool_calls # <<>>
    /\ UNCHANGED <<toolVars, otherVars>>
    /\ LET call == Head(tool_calls) IN
       IF GetToolDetailRaises(call)
       THEN Raise                                              \* line 140
       ELSE \E h \in HandlerOutcomes, log1 \in BOOLEAN, log2 \in BOOLEAN :
              \* a handler does not succeed on an args value of the wrong type
              /\ (~call.argsWellTyped) => h # "success"
              /\ LET result == Execute(call.tool, h, h = "fail", log1, log2) IN
                 IF result.kind = "exception"
                 THEN Raise                                    \* line 143
                 ELSE RecordAndContinue(call, result)

\* agent.py:110, 184: next pass of the for loop, or the loop is exhausted.
NextRound ==
    /\ iteration' = iteration + 1
    /\ roundBase' = Len(all_tool_results')
    /\ pc' = IF iteration + 1 < MAX_ITERATIONS THEN "AwaitingModel" ELSE "Summarizing"

\* agent.py:155-178: the automatic test run, then the end of the round.
AutoTest ==
    /\ pc = "AutoTest"
    /\ UNCHANGED <<toolVars, otherVars>>
    /\ \E test_files_exist \in BOOLEAN :
         IF AnyPatchSucceeded(all_tool_results) /\ test_files_exist
         THEN \* lines 167-176: execute("run_tests", ...)
              \E h \in {"success", "fail"}, log1 \in BOOLEAN, log2 \in BOOLEAN :
                LET result == Execute("run_tests", h, h = "fail", log1, log2) IN
                IF result.kind = "exception"
                THEN Raise                                     \* line 169
                ELSE /\ all_tool_results' =
                          Append(all_tool_results, Entry("run_tests (auto)", result.success))
                     /\ NextRound
                     /\ UNCHANGED <<tool_calls, final_response, genOutcomes,
                                    sumGenCalls, turnLog, response, workLog>>
         ELSE \* no successful apply_patch so far, or no test files: nothing runs
              /\ UNCHANGED <<tool_calls, all_tool_results, final_response, genOutcomes,
                             sumGenCalls, turnLog, response, workLog>>
              /\ NextRound

\* agent.py:184-194: one tool-free generate call; a failure of it is replaced
\* by the templated message.
Summarize ==
    /\ pc = "Summarizing"
    /\ sumGenCalls' = sumGenCalls + 1
    /\ \E text \in {"", "text", "Task complete. (Summary generation failed)"} :
          Finish(text)
    /\ UNCHANGED <<iteration, tool_calls, all_tool_results, genOutcomes, roundBase,
                   toolVars, otherVars>>


-----------------------------------------------------------------------------
(* Paths, tools.py:256-299.  A raw path is what the model wrote in the      *)
(* "path" argument: absolute or not, and its segments.                      *)

\* tools.py:24-30
SSOT_FILES == {"HANDOVER.md", "CONSTITUTION.md", "ARCHITECTURE.md",
               "CHECKLIST.md", "DECISIONS.md"}

\* tools.py:46: the resolved project root, /proj
project_root == <<"proj">>

Rel(segs) == [abs |-> FALSE, segs |-> segs]
Abs(segs) == [abs |-> TRUE, segs |-> segs]

EmptyPath == Rel(<<>>)                                 \* ""
PathAPy == Rel(<<"a.py">>)                             \* a.py
PathUpper == Rel(<<"A.PY">>)                           \* A.PY
PathHandover == Rel(<<"HANDOVER.md">>)                 \* HANDOVER.md
PathParentHandover == Rel(<<"..", "HANDOVER.md">>)     \* ../HANDOVER.md
PathTraversal == Rel(<<"sub", "..", "a.py">>)          \* sub/../a.py
PathAbsInside == Abs(<<"proj", "a.py">>)               \* /proj/a.py
PathAbsOutside == Abs(<<"etc", "passwd">>)             \* /etc/passwd
PathEnv == Rel(<<".env">>)                             \* .env
PathParentDir == Rel(<<"..">>)                         \* ..
PathAbsEtc == Abs(<<"etc">>)                           \* /etc
PathDot == Rel(<<".">>)                                \* .

FilePaths == {PathAPy, PathHandover, PathParentHandover, PathTraversal,
              PathAbsInside, PathAbsOutside, PathEnv}

\* pathlib: project_root / path (tools.py:106, 267, 316, 506)
Join(root, path) == IF path.abs THEN path.segs ELSE root \o path.segs

ButLast(s) == IF s = <<>> THEN <<>> ELSE SubSeq(s, 1, Len(s) - 1)

\* pathlib: Path.resolve() (tools.py:268); no symbolic links in the tree
RECURSIVE ResolveFrom(_, _)
ResolveFrom(acc, rest) ==
    IF rest = <<>> THEN acc
    ELSE IF Head(rest) = ".." THEN ResolveFrom(ButLast(acc), Tail(rest))
    ELSE IF Head(rest) = "." THEN ResolveFrom(acc, Tail(rest))
    ELSE ResolveFrom(Append(acc, Head(rest)), Tail(rest))

Resolve(segs) == ResolveFrom(<<>>, segs)

\* pathlib: resolved.relative_to(project_root) does not raise (tools.py:272)
IsRelativeTo(resolved, root) ==
    /\ Len(resolved) >= Len(root)
    /\ SubSeq(resolved, 1, Len(root)) = root

\* The names of the model that contain two consecutive dots
TwoDotNames == {"..", "notes..txt"}

\* tools.py:277: the substring test ".." in path
HasDotDot(path) == \E i \in 1..Len(path.segs) : path.segs[i] \in TwoDotNames

\* tools.py:286-287: the patterns "/etc/", "/usr/", "/bin/", "/sbin/" match a
\* directory of that name anywhere in the resolved path
SystemDirectories == {"etc", "usr", "bin", "sbin"}

\* tools.py:290: the names of the model that contain ".env" or "secrets"
SensitiveNames == {".env", "config.env.example", "secrets.py", "secrets-app"}

\* tools.py:285-294: a pattern is a substring of str(resolved).lower(), the root's
\* own segments included
IsSensitive(resolved) ==
    \E i \in 1..Len(resolved) :
        \/ resolved[i] \in SystemDirectories /\ i < Len(resolved)
        \/ resolved[i] \in SensitiveNames

\* pathlib: Path(path).name
Name(path) == IF path.segs = <<>> THEN "" ELSE path.segs[Len(path.segs)]

\* tools.py:256-259
IsSsotFile(path) == Name(path) \in SSOT_FILES

\* tools.py:261-299: "ok", or the check that rejects the path
ScopeVerdict(root, path) ==
    LET resolved == Resolve(Join(root, path)) IN
    IF ~IsRelativeTo(resolved, root) THEN "outside"
    ELSE IF HasDotDot(path) THEN "traversal"
    ELSE IF path.abs THEN "absolute"
    ELSE IF IsSensitive(resolved) THEN "sensitive"
    ELSE "ok"

\* _validate_project_scope of the executor whose root is project_root
ValidateProjectScope(path) == ScopeVerdict(project_root, path)

\* What the sandbox is specified to reject: the path escapes the root, has a
\* parent-traversal segment, or is absolute.
Escapes(path) ==
    \/ ~IsRelativeTo(Resolve(Join(project_root, path)), project_root)
    \/ HasDotDot(path)
    \/ path.abs

-----------------------------------------------------------------------------
(* The project tree *)

Absent == "<absent>"
Contents == {"", "v1", "v2"}

\* A text the utf-8 codec cannot encode: a lone surrogate, which json.loads accepts
\* in the arguments of a tool call ("\ud83d")
Unencodable == "<lone surrogate>"

\* The files the model follows, by resolved path
Files == {<<"proj", "a.py">>, <<"proj", "HANDOVER.md">>, <<"proj", ".env">>,
          <<"HANDOVER.md">>, <<"etc", "passwd">>}

Directories == {<<>>, <<"proj">>, <<"etc">>}

ReadText(tree, file) == IF file \in DOMAIN tree THEN tree[file] ELSE Absent

Exists(tree, resolved) == resolved \in Directories \/ ReadText(tree, resolved) # Absent

\* str.lower() on the file names of this tree (tools.py:113, 116)
Lower(name) == IF name = "A.PY" THEN "a.py" ELSE name

\* A write_text that would add the text to what the file holds.
AppendText(tree, file, content) ==
    [tree EXCEPT ![file] = IF @ \in {Absent, ""} THEN content
                           ELSE IF content = "" THEN @
                           ELSE "v1v2"]

\* Path.write_text (tools.py:383, 749)
WriteText(tree, file, content) == [tree EXCEPT ![file] = content]

-----------------------------------------------------------------------------
(* ToolExecutor._apply_patch, tools.py:301-414 *)

\* One element of args["files"]: content and diff are None when the key is missing.
FilePatch(path, content, diff) == [path |-> path, content |-> content, diff |-> diff]

\* tools.py:416-459, by its outcome: "hunk" is a diff with a valid @@ header that
\* rewrites the file to "v2", "nohunk" a diff without one (the result is None).
Diffs == {"hunk", "nohunk"}
ApplyUnifiedDiff(original, diff) == IF diff = "hunk" THEN "v2" ELSE None

\* The state a handler works on, and what it reports
HandlerState(tree, pending, hasCallback) ==
    [fs |-> tree, pending |-> pending, hasCallback |-> hasCallback,
     results |-> <<>>, callbacks |-> <<>>, writes |-> <<>>, indexed |-> <<>>]

AddResult(st, r) == [st EXCEPT !.results = Append(st.results, r)]

\* tools.py:350-355 / 744: one call of the approval callback
Callback(file_name, file_path, old_content, new_content, answer) ==
    [file_name |-> file_name, file_path |-> file_path, old_content |-> old_content,
     new_content |-> new_content, approved |-> answer]

\* tools.py:366-372
PendingSSOTChange(path, full_path, old_content, new_content) ==
    [path |-> path, full_path |-> full_path, file_name |-> Name(path),
     old_content |-> old_content, new_content |-> new_content]

\* Python's "x or ''" for a content that may be None
OrEmpty(content) == IF content \in {Absent, None} THEN "" ELSE content

\* Python's truth value of a content that may be None
Truthy(content) == content \notin {Absent, None, ""}

\* tools.py:380-385
WriteFile(st, full_path, new_content) ==
    [st EXCEPT !.fs = WriteText(st.fs, full_path, new_content),
               !.writes = Append(st.writes, [file |-> full_path, content |-> new_content]),
               !.results = Append(st.results, "written")]

\* tools.py:389-391: hashlib.md5(full_path.read_bytes()).hexdigest()
Hash(content) == <<"md5", content>>

\* tools.py:388-396 with memory.py:339-357: the file_index row of the path as it was
\* given, with the hash of what the file holds now
UpdateIndex(st, path, full_path) ==
    IF Exists(st.fs, full_path)
    THEN [st EXCEPT !.indexed = Append(st.indexed,
                       [path |-> path, content_hash |-> Hash(ReadText(st.fs, full_path))])]
    ELSE st

\* tools.py:383: write_text opens the file for writing, which empties it, and then
\* encodes the text, which raises UnicodeEncodeError for a text utf-8 cannot encode
WriteRaises(new_content) == new_content = Unencodable

\* tools.py:380-399: the write, the index update after it, and the except clause
\* that turns an exception of either into a failure entry
WriteAndIndex(st, path, full_path, new_content) ==
    IF WriteRaises(new_content)
    THEN AddResult([st EXCEPT !.fs = WriteText(st.fs, full_path, "")], "write_failed")
    ELSE UpdateIndex(WriteFile(st, full_path, new_content), path, full_path)

\* tools.py:344: the approval gate is entered only for a truthy new_content
GateApplies(new_content, path) == Truthy(new_content) /\ IsSsotFile(path)

\* tools.py:345-378: the gate for a governance file
Gate(st, path, full_path, backup, new_content, hasCallback, answer) ==
    IF hasCallback
    THEN LET asked == [st EXCEPT !.callbacks = Append(st.callbacks,
                         Callback(Name(path), full_path, OrEmpty(backup), new_content, answer))]
         IN IF answer THEN WriteAndIndex(asked, path, full_path, new_content)
                      ELSE AddResult(asked, "rejected")
    ELSE AddResult([st EXCEPT !.pending = Append(st.pending,
                        PendingSSOTChange(path, full_path, OrEmpty(backup), new_content))],
                   "approval_required")

\* tools.py:308-399: one pass of the loop over files
PatchOneFile(st, patch, hasCallback, answer) ==
    LET path == patch.path
        full_path == Resolve(Join(project_root, path))
        backup == ReadText(st.fs, full_path)                        \* lines 326-328
        patched == ApplyUnifiedDiff(backup, patch.diff)
        new_content == IF patch.content # None THEN patch.content
                       ELSE IF patch.diff # None THEN patched
                       ELSE None
    IN  IF path = EmptyPath THEN st                                  \* lines 313-314
        ELSE IF ValidateProjectScope(path) # "ok"                    \* lines 319-322
             THEN AddResult(st, "sandbox")
        ELSE IF patch.content = None /\ patch.diff # None /\ ~Truthy(backup)
             THEN AddResult(st, "original_not_found")                \* lines 335-337
        ELSE IF patch.content = None /\ patch.diff # None /\ ~Truthy(patched)
             THEN AddResult(st, "diff_failed")                       \* lines 339-341
        ELSE IF GateApplies(new_content, path)                       \* line 344
             THEN Gate(st, path, full_path, backup, new_content, hasCallback, answer)
        ELSE IF new_content # None
             THEN WriteAndIndex(st, path, full_path, new_content)    \* lines 381-396
        ELSE UpdateIndex(st, path, full_path)                        \* lines 388-396

\* tools.py:308: the files of one call, in order; answers[i] is what the
\* approval callback returns if it is asked about file i.
RECURSIVE PatchFiles(_, _, _, _, _)
PatchFiles(st, files, i, hasCallback, answers) ==
    IF i > Len(files) THEN st
    ELSE PatchFiles(PatchOneFile(st, files[i], hasCallback, answers[i]),
                    files, i + 1, hasCallback, answers)

\* tools.py:401, 411
AllSucceeded(results) == \A i \in 1..Len(results) : results[i] = "written"

\* The args["files"] values the model is given
ContentPatches == {FilePatch(p, c, None) : p \in FilePaths, c \in Contents}
DiffPatches == {FilePatch(p, None, d) : p \in {PathAPy, PathHandover}, d \in Diffs}
PatchLists ==
    {<<f>> : f \in ContentPatches \cup DiffPatches}
    \cup {<<FilePatch(p, "v1", None), FilePatch(q, "v1", None)>> :
             p \in {PathAPy, PathHandover, PathParentHandover}, q \in {PathAPy}}
    \cup {<<FilePatch(EmptyPath, "v1", None)>>, <<FilePatch(PathAPy, None, None)>>,
          <<FilePatch(PathAPy, Unencodable, None)>>}

-----------------------------------------------------------------------------
(* ToolExecutor.execute with each handler, tools.py:54-759 *)

\* The path recorded for a call that has no path argument
NoPath == [abs |-> FALSE, segs |-> <<"<no path>">>]

\* The record kept of one execute() call.
\*   uncheckedAccess: the handler touched the file system at the target (an
\*   existence test, a listing, a read, or handing the path to git) without a
\*   sandbox check before it.
\*   first: empty, or the call with the same arguments made just before this one.
Call(tool, path, files, st, uncheckedAccess, result) ==
    [tool |-> tool, path |-> path, files |-> files, results |-> st.results,
     hasCallback |-> st.hasCallback,
     callbacks |-> st.callbacks, writes |-> st.writes, indexed |-> st.indexed,
     queued |-> Len(st.pending),
     uncheckedAccess |-> uncheckedAccess, result |-> result, first |-> <<>>]

NoCall ==
    Call("", NoPath, <<>>, HandlerState(<<>>, <<>>, FALSE), FALSE, ToolResult(TRUE, FALSE, ""))

ToolInit ==
    /\ fs \in {[f \in Files |-> IF f = <<"proj", "a.py">> THEN a
                                ELSE IF f = <<"proj", "HANDOVER.md">> THEN h
                                ELSE "v1"] : a \in {Absent, "v1"}, h \in {Absent, "", "v1"}}
    /\ ssot_approval_callback \in BOOLEAN        \* tools.py:45, 50
    /\ pending_ssot_changes = <<>>
    /\ last = NoCall

\* The executor of a session in which no tool has run
ToolIdle ==
    /\ fs = [f \in Files |-> "v1"]
    /\ ssot_approval_callback = FALSE
    /\ pending_ssot_changes = <<>>
    /\ last = NoCall

\* chat_window.py:143: the worker registers the approval callback
SetApprovalCallback ==
    /\ ~ssot_approval_callback
    /\ ssot_approval_callback' = TRUE
    /\ UNCHANGED <<fs, pending_ssot_changes, last, agentVars, otherVars>>

\* What a handler leaves behind, and the record of the call
Effect(tool, path, files, st, uncheckedAccess, result) ==
    /\ last = NoCall
    /\ Len(st.pending) <= MaxPending
    /\ fs' = st.fs
    /\ pending_ssot_changes' = st.pending
    /\ last' = Call(tool, path, files, [st EXCEPT !.pending =
                        SubSeq(st.pending, Len(pending_ssot_changes) + 1, Len(st.pending))],
                    uncheckedAccess, result)
    /\ UNCHANGED <<ssot_approval_callback, agentVars, otherVars>>

\* agent.py:143-153: execute has returned and its caller has taken the result
TakeResult ==
    /\ last # NoCall
    /\ last' = NoCall
    /\ UNCHANGED <<fs, ssot_approval_callback, pending_ssot_changes, agentVars, otherVars>>

Untouched == HandlerState(fs, pending_ssot_changes, ssot_approval_callback)

\* execute("apply_patch", {"files": files})
ExecApplyPatch ==
    \E files \in PatchLists, log1 \in BOOLEAN, log2 \in BOOLEAN :
    \E answers \in IF ssot_approval_callback THEN [1..Len(files) -> BOOLEAN]
                                              ELSE {[i \in 1..Len(files) |-> FALSE]} :
       LET st == PatchFiles(Untouched, files, 1, ssot_approval_callback, answers)
           h == IF AllSucceeded(st.results) THEN "success" ELSE "fail"
       IN Effect("apply_patch", NoPath, files, st, FALSE,
                 Execute("apply_patch", h, FALSE, log1, log2))

\* What is kept of the first of two calls with the same arguments
FirstCall(call, tree) ==
    [results |-> call.results, result |-> call.result, fs |-> tree]

\* agent.py:136-143: the next tool call of the response has the arguments of
\* the one that has just returned: execute("apply_patch", {"files": files})
\* runs a second time on what the first call left.
ExecApplyPatchAgain ==
    /\ last # NoCall
    /\ last.tool = "apply_patch"
    /\ last.first = <<>>
    /\ last.result.kind = "result"
    /\ \E log1 \in BOOLEAN, log2 \in BOOLEAN :
       \E answers \in IF ssot_approval_callback THEN [1..Len(last.files) -> BOOLEAN]
                                                 ELSE {[i \in 1..Len(last.files) |-> FALSE]} :
          LET st == PatchFiles(Untouched, last.files, 1, ssot_approval_callback, answers)
              h == IF AllSucceeded(st.results) THEN "success" ELSE "fail"
              queued == [st EXCEPT !.pending =
                            SubSeq(st.pending, Len(pending_ssot_changes) + 1, Len(st.pending))]
          IN /\ Len(st.pending) <= MaxPending + 1
             /\ fs' = st.fs
             /\ pending_ssot_changes' = st.pending
             /\ last' = [Call("apply_patch", NoPath, last.files, queued, FALSE,
                              Execute("apply_patch", h, FALSE, log1, log2))
                           EXCEPT !.first = <<FirstCall(last, fs)>>]
    /\ UNCHANGED <<ssot_approval_callback, agentVars, otherVars>>

\* tools.py:110-119: the file the case-insensitive search settles on
CaseFixed(tree, resolved) ==
    IF Exists(tree, resolved) \/ ~Exists(tree, ButLast(resolved)) THEN resolved
    ELSE LET same == {f \in DOMAIN tree :
                        /\ tree[f] # Absent
                        /\ ButLast(f) = ButLast(resolved)
                        /\ Lower(f[Len(f)]) = Lower(resolved[Len(resolved)])}
         IN IF same = {} THEN resolved ELSE CHOOSE f \in same : TRUE

\* tools.py:100-148: "success" or the failing return
ReadFile(tree, path) ==
    LET full_path == CaseFixed(tree, Resolve(Join(project_root, path))) IN
    IF path = EmptyPath THEN "path_required"                        \* lines 103-104
    ELSE IF ~Exists(tree, full_path) THEN "not_found"               \* lines 121-122
    ELSE IF ValidateProjectScope(path) # "ok" THEN "sandbox"        \* lines 125-127
    ELSE IF full_path \in Directories THEN "read_failed"            \* lines 147-148
    ELSE "success"

ReadPaths == FilePaths \cup {EmptyPath, PathUpper}

\* execute("read_file", {"path": path}): lines 108 and 110 test the existence of
\* the target before line 125 validates the path.
ExecReadFile ==
    \E path \in ReadPaths, log1 \in BOOLEAN, log2 \in BOOLEAN :
       LET r == ReadFile(fs, path) IN
       Effect("read_file", path, <<>>, Untouched, path # EmptyPath,
              Execute("read_file", IF r = "success" THEN "success" ELSE "fail",
                      r # "success", log1, log2))

\* tools.py:514-517: a listed path has a part that starts with "."
Hidden(path, file, target) ==
    \/ \E i \in 1..Len(path.segs) : path.segs[i] = ".."
    \/ \E i \in (Len(target) + 1)..Len(file) : file[i] = ".env"

\* tools.py:500-542: rglob under the target, drop hidden entries, then
\* relative_to(project_root) raises for an entry outside the root.
ListFiles(tree, path) ==
    LET target == Resolve(Join(project_root, path))
        found == {f \in DOMAIN tree : tree[f] # Absent /\ IsRelativeTo(f, target)}
        shown == {f \in found : ~Hidden(path, f, target)}
    IN IF \E f \in shown : ~IsRelativeTo(f, project_root) THEN "list_failed"
       ELSE "success"

ListPaths == {PathDot, PathParentDir, PathAbsEtc}

\* execute("list_files", {"path": path}): no sandbox check at all.
ExecListFiles ==
    \E path \in ListPaths, log1 \in BOOLEAN, log2 \in BOOLEAN :
       LET r == ListFiles(fs, path) IN
       Effect("list_files", path, <<>>, Untouched, TRUE,
              Execute("list_files", IF r = "success" THEN "success" ELSE "fail",
                      r # "success", log1, log2))

DiffPathArgs == {EmptyPath, PathAPy, PathParentHandover, PathAbsOutside}

\* execute("get_diff", {"path": path}), tools.py:544-570: the path goes to git
\* unchecked; the result is a success unless the subprocess call itself raises.
ExecGetDiff ==
    \E path \in DiffPathArgs, subprocessRuns \in BOOLEAN, log1 \in BOOLEAN, log2 \in BOOLEAN :
       Effect("get_diff", path, <<>>, Untouched, path # EmptyPath,
              Execute("get_diff", IF subprocessRuns THEN "success" ELSE "fail",
                      ~subprocessRuns, log1, log2))

CommitPathArgs == {EmptyPath, PathAPy, PathParentHandover}

\* execute("git_commit", {"message": m, "files": [path]}), tools.py:572-623:
\* git add gets the path unchecked; the result follows git commit's exit code.
ExecGitCommit ==
    \E path \in CommitPathArgs, message \in {"", "msg"},
       commit \in {"committed", "nothing to commit", "raises"},
       log1 \in BOOLEAN, log2 \in BOOLEAN :
       IF message = ""
       THEN Effect("git_commit", path, <<>>, Untouched, FALSE,
                   Execute("git_commit", "fail", TRUE, log1, log2))
       ELSE Effect("git_commit", path, <<>>, Untouched, path # EmptyPath,
                   Execute("git_commit", IF commit = "committed" THEN "success" ELSE "fail",
                           commit # "committed", log1, log2))

-----------------------------------------------------------------------------
(* ToolExecutor._update_ssot, tools.py:658-759 *)

\* tools.py:684: the text taken as old content when the document does not exist
DefaultHeader == "# header"

\* tools.py:686-740: the document with its "Last updated" line refreshed and the
\* update applied; it is never empty and differs from the old text.
UpdatedDocument(old_content) == IF old_content = "v2" THEN "v1" ELSE "v2"

\* tools.py:668-753: one pass of the loop over updates
UpdateOneDocument(st, file_name, hasCallback, answer) ==
    LET file_path == Resolve(Join(project_root, Rel(<<file_name>>)))
        on_disk == ReadText(st.fs, file_path)
        old_content == IF on_disk # Absent THEN on_disk ELSE DefaultHeader   \* 681-684
        new_content == UpdatedDocument(old_content)
        asked == [st EXCEPT !.callbacks = Append(st.callbacks,
                     Callback(file_name, file_path, old_content, new_content, answer))]
    IN  IF file_name \notin SSOT_FILES                               \* lines 674-676
        THEN AddResult(st, "not_ssot")
        ELSE IF hasCallback                                          \* lines 743-747
             THEN IF answer THEN WriteFile(asked, file_path, new_content)
                            ELSE AddResult(asked, "rejected")
        ELSE WriteFile(st, file_path, new_content)                   \* lines 749-750

UpdateFileNames == {"HANDOVER.md", "notes.md"}

\* execute("update_ssot", {"updates": [{"file": file_name, ...}]})
ExecUpdateSsot ==
    \E updates \in {<<>>} \cup {<<n>> : n \in UpdateFileNames},
       answer \in BOOLEAN, log1 \in BOOLEAN, log2 \in BOOLEAN :
       IF updates = <<>>                                             \* lines 661-662
       THEN Effect("update_ssot", NoPath, <<>>, Untouched, FALSE,
                   Execute("update_ssot", "fail", TRUE, log1, log2))
       ELSE LET st == UpdateOneDocument(Untouched, updates[1], ssot_approval_callback, answer)
            IN Effect("update_ssot", Rel(<<updates[1]>>), <<>>, st, FALSE,
                      Execute("update_ssot",
                              IF AllSucceeded(st.results) THEN "success" ELSE "fail",
                              FALSE, log1, log2))

\* execute of search, run_tests, git_push (tools.py:150-254, 461-498, 625-656):
\* each handler turns what goes wrong inside it into a failed ToolResult.
ExecSubprocessTool ==
    \E name \in {"search", "run_tests", "git_push"}, h \in {"success", "fail"},
       hasError \in BOOLEAN, log1 \in BOOLEAN, log2 \in BOOLEAN :
       /\ h = "success" => ~hasError
       /\ Effect(name, NoPath, <<>>, Untouched, FALSE,
                 Execute(name, h, hasError, log1, log2))

\* execute with an args value that is no mapping: args.get raises in the handler
ExecWithoutMapping ==
    \E name \in Handlers, log1 \in BOOLEAN, log2 \in BOOLEAN :
       Effect(name, NoPath, <<>>, Untouched, FALSE,
              Execute(name, "raise", TRUE, log1, log2))

\* execute with a name that is no key of handlers, or that cannot be hashed
ExecUnknownName ==
    \E name \in {"no_such_tool", Unhashable} :
       Effect(name, NoPath, <<>>, Untouched, FALSE,
              Execute(name, "raise", TRUE, TRUE, TRUE))

-----------------------------------------------------------------------------
(* MemoryStore: conversation turns, memory.py:71-83, 260-303, 395-421 *)

\* memory.py:143-150: a row of conversation_turns, by what the queries read
Row(id, timestamp) == [id |-> id, timestamp |-> timestamp]

\* memory.py:274, 287: the row sets that SELECT ... ORDER BY timestamp DESC
\* LIMIT n can return; SQL leaves the order of rows with equal timestamps open.
NewestByTimestamp(rows, n) ==
    {K \in SUBSET rows :
        /\ Cardinality(K) = (IF n < Cardinality(rows) THEN n ELSE Cardinality(rows))
        /\ \A r \in K, q \in rows \ K : r.timestamp >= q.timestamp}

\* memory.py:293-295: the rows of K, oldest timestamp first
OldestFirst(K) ==
    {s \in [1..Cardinality(K) -> K] :
        /\ \A i, j \in 1..Cardinality(K) : i # j => s[i] # s[j]
        /\ \A i, j \in 1..Cardinality(K) : i < j => s[i].timestamp <= s[j].timestamp}

\* memory.py:75-79: a store on an empty table
MemoryInit ==
    /\ conversation_turns = {}
    /\ max_turns \in 1..MaxTurnsBound
    /\ next_id = 1
    /\ clock = 1
    /\ adds = 0
    /\ retrieved = <<>>

\* The store of a session that does not use it
MemoryIdle ==
    /\ conversation_turns = {}
    /\ max_turns = MaxTurnsBound
    /\ next_id = 1
    /\ clock = 1
    /\ adds = 0
    /\ retrieved = <<>>

\* memory.py:260-279: INSERT with datetime.now(), then DELETE all but the
\* max_turns rows with the greatest timestamps.
add_turn ==
    /\ next_id <= MaxAdds
    /\ \E K \in NewestByTimestamp(conversation_turns \cup {Row(next_id, clock)}, max_turns) :
          conversation_turns' = K
    /\ next_id' = next_id + 1
    /\ adds' = adds + 1
    /\ retrieved' = <<>>
    /\ UNCHANGED <<max_turns, clock, agentVars, toolVars, bridgeVars, parserVars, callerVars, promptVars, laterVars>>

\* memory.py:281-295
get_recent_turns ==
    /\ conversation_turns # {}
    /\ \E limit \in 1..MaxTurnsBound :
       \E K \in NewestByTimestamp(conversation_turns, limit) :
       \E s \in OldestFirst(K) :
          retrieved' = [i \in 1..Cardinality(K) |-> s[i].id]
    /\ UNCHANGED <<conversation_turns, max_turns, next_id, clock, adds, agentVars, toolVars, bridgeVars, parserVars, callerVars, promptVars, laterVars>>

\* memory.py:81-83: the bound changes, the table is not touched
set_max_turns ==
    /\ \E n \in 1..MaxTurnsBound : max_turns' = n
    /\ adds' = (IF max_turns' = max_turns THEN adds ELSE 0)
    /\ UNCHANGED <<conversation_turns, next_id, clock, retrieved, agentVars, toolVars, bridgeVars, parserVars, callerVars, promptVars, laterVars>>

\* memory.py:395-421: the singleton exists; the project's max_turns setting is
\* handed to set_max_turns (lines 417-419).
get_memory_store ==
    /\ \E setting \in 1..MaxTurnsBound : max_turns' = setting
    /\ adds' = (IF max_turns' = max_turns THEN adds ELSE 0)
    /\ UNCHANGED <<conversation_turns, next_id, clock, retrieved, agentVars, toolVars, bridgeVars, parserVars, callerVars, promptVars, laterVars>>

\* memory.py:297-303
clear_conversation ==
    /\ conversation_turns' = {}
    /\ adds' = 0
    /\ retrieved' = <<>>
    /\ UNCHANGED <<max_turns, next_id, clock, agentVars, toolVars, bridgeVars, parserVars, callerVars, promptVars, laterVars>>

\* The wall clock moves on between two calls.
Tick ==
    /\ clock < MaxClock
    /\ clock' = clock + 1
    /\ UNCHANGED <<conversation_turns, max_turns, next_id, adds, retrieved,
                   agentVars, toolVars, bridgeVars, parserVars, callerVars, promptVars, laterVars>>

\* The wall clock is set back: datetime.now() is naive local time, which
\* repeats an hour when daylight saving time ends, and follows clock corrections.
ClockSetBack ==
    /\ \E t \in 1..(clock - 1) : clock' = t
    /\ UNCHANGED <<conversation_turns, max_turns, next_id, adds, retrieved,
                   agentVars, toolVars, bridgeVars, parserVars, callerVars, promptVars, laterVars>>

MemoryNext ==
    \/ add_turn
    \/ get_recent_turns
    \/ set_max_turns
    \/ get_memory_store
    \/ clear_conversation
    \/ Tick
    \/ ClockSetBack

-----------------------------------------------------------------------------
(* The approval handshake between the worker thread and the main thread,    *)
(* ui/chat_window.py:67-150, 1139-1164, 1205-1273.  Each statement of       *)
(* request_approval and of set_result is one step; the two threads          *)
(* interleave between any two statements.                                   *)

WorkerIds == {"w1", "w2"}

\* A request_approval call: the n-th of worker w
Request(w, n) == <<w, n>>

\* Positions of a worker: "none" (not created), "process" (inside
\* Agent.process, outside the handshake), then the statement it executes next
\* ("store" line 80, "newEvent" line 86, "reset" line 87, "callWait" line 90,
\* "blocked" inside wait, "read" line 92), "finished" (line 146 emitted).
WorkerPcs == {"none", "process", "store", "newEvent", "reset", "callWait",
              "blocked", "read", "finished", "done"}

Outstanding == {"store", "newEvent", "reset", "callWait", "blocked", "read"}

Thread(at, made, event) ==
    [pc |-> at, made |-> made, event |-> event, timedOut |-> FALSE]

\* What the approver can decide (the bool handed to set_result)
Approve == "True"
Reject == "False"

\* No request_approval call
NoRequest == <<"none", 0>>

NoReturn ==
    [request |-> NoRequest, value |-> Reject, deposits |-> <<>>, info |-> <<>>,
     timedOut |-> FALSE]

Idle == [pc |-> "idle", value |-> Reject, request |-> NoRequest]

\* chat_window.py:67-73, 419-425
BridgeInit ==
    /\ workers = [w \in WorkerIds |-> Thread("none", 0, NoRequest)]
    /\ pending_approval = NoRequest
    /\ approval_result = None
    /\ approval_event = NoRequest
    /\ eventsSet = {}
    /\ signals = 0
    /\ dialogs = <<>>
    /\ mainPc = Idle
    /\ inputEnabled = TRUE
    /\ deposits = <<>>
    /\ depositInfo = <<>>
    /\ returned = NoReturn

\* A send_message that would start a worker while another one is running.
SendMessageWhileBusy(w) ==
    /\ workers[w].pc = "none"
    /\ mainPc = Idle
    /\ dialogs = <<>>
    /\ inputEnabled' = FALSE
    /\ pending_approval' = NoRequest
    /\ workers' = [workers EXCEPT ![w].pc = "process"]
    /\ UNCHANGED <<approval_result, approval_event, eventsSet, signals, dialogs,
                   mainPc, deposits, depositInfo, returned,
                   agentVars, toolVars, memoryVars, parserVars, callerVars, promptVars, laterVars>>

\* chat_window.py:1139-1164: the input is enabled (the send button and the
\* input field are disabled at lines 1140-1141) and no modal dialog is open;
\* the bridge is cleared and a new worker started.
SendMessage(w) ==
    /\ inputEnabled
    /\ workers[w].pc = "none"
    /\ mainPc = Idle
    /\ dialogs = <<>>
    /\ inputEnabled' = FALSE
    /\ pending_approval' = NoRequest                                         \* line 1158
    /\ workers' = [workers EXCEPT ![w].pc = "process"]
    /\ UNCHANGED <<approval_result, approval_event, eventsSet, signals, dialogs,
                   mainPc, deposits, depositInfo, returned,
                   agentVars, toolVars, memoryVars, parserVars, callerVars, promptVars, laterVars>>

\* The request_approval calls made so far, over all workers
RequestsMade ==
    LET Sum[S \in SUBSET WorkerIds] ==
            IF S = {} THEN 0
            ELSE LET w == CHOOSE x \in S : TRUE IN workers[w].made + Sum[S \ {w}]
    IN Sum[WorkerIds]

\* chat_window.py:127-132: the tool executor asks for an approval; the signal
\* is emitted before request_approval is entered.
WorkerEmit(w) ==
    /\ workers[w].pc = "process"
    /\ RequestsMade < MaxRequests
    /\ signals' = signals + 1
    /\ workers' = [workers EXCEPT ![w].pc = "store", ![w].made = @ + 1]
    /\ UNCHANGED <<pending_approval, approval_result, approval_event, eventsSet,
                   dialogs, mainPc, inputEnabled, deposits, depositInfo, returned,
                   agentVars, toolVars, memoryVars, parserVars, callerVars, promptVars, laterVars>>

\* chat_window.py:80-85
WorkerStore(w) ==
    /\ workers[w].pc = "store"
    /\ pending_approval' = Request(w, workers[w].made)
    /\ workers' = [workers EXCEPT ![w].pc = "newEvent"]
    /\ UNCHANGED <<approval_result, approval_event, eventsSet, signals, dialogs,
                   mainPc, inputEnabled, deposits, depositInfo, returned,
                   agentVars, toolVars, memoryVars, parserVars, callerVars, promptVars, laterVars>>

\* chat_window.py:86
WorkerNewEvent(w) ==
    /\ workers[w].pc = "newEvent"
    /\ approval_event' = Request(w, workers[w].made)
    /\ workers' = [workers EXCEPT ![w].pc = "reset"]
    /\ UNCHANGED <<pending_approval, approval_result, eventsSet, signals, dialogs,
                   mainPc, inputEnabled, deposits, depositInfo, returned,
                   agentVars, toolVars, memoryVars, parserVars, callerVars, promptVars, laterVars>>

\* chat_window.py:87
WorkerReset(w) ==
    /\ workers[w].pc = "reset"
    /\ approval_result' = None
    /\ deposits' = <<>>
    /\ depositInfo' = <<>>
    /\ workers' = [workers EXCEPT ![w].pc = "callWait"]
    /\ UNCHANGED <<pending_approval, approval_event, eventsSet, signals, dialogs,
                   mainPc, inputEnabled, returned,
                   agentVars, toolVars, memoryVars, parserVars, callerVars, promptVars, laterVars>>

\* chat_window.py:90: self.approval_event is read and wait is entered
WorkerCallWait(w) ==
    /\ workers[w].pc = "callWait"
    /\ workers' = [workers EXCEPT ![w].pc = "blocked", ![w].event = approval_event]
    /\ UNCHANGED <<pending_approval, approval_result, approval_event, eventsSet,
                   signals, dialogs, mainPc, inputEnabled, deposits, depositInfo, returned,
                   agentVars, toolVars, memoryVars, parserVars, callerVars, promptVars, laterVars>>

\* What a wait that ends leaves behind
WaitEnds(w, timedOut) ==
    /\ workers' = [workers EXCEPT ![w].pc = "read", ![w].timedOut = timedOut]
    /\ UNCHANGED <<pending_approval, approval_result, approval_event, eventsSet,
                   signals, dialogs, mainPc, inputEnabled, deposits, depositInfo, returned,
                   agentVars, toolVars, memoryVars, parserVars, callerVars, promptVars, laterVars>>

\* chat_window.py:90: the event is set, wait returns
WaitWoken(w) ==
    /\ workers[w].pc = "blocked"
    /\ workers[w].event \in eventsSet
    /\ WaitEnds(w, FALSE)

\* chat_window.py:90: the 300 seconds are over and the event is not set
WaitTimesOut(w) ==
    /\ workers[w].pc = "blocked"
    /\ workers[w].event \notin eventsSet
    /\ WaitEnds(w, TRUE)

\* A return that would take a missing decision for an approval.
ReturnValueApproving(result) == IF result # None THEN result ELSE Approve

\* chat_window.py:92
ReturnValue(result) == IF result # None THEN result ELSE Reject

\* chat_window.py:92, 134: request_approval returns to the tool executor
WorkerReturn(w) ==
    /\ workers[w].pc = "read"
    /\ returned' = [request |-> Request(w, workers[w].made),
                    value |-> ReturnValue(approval_result),
                    deposits |-> deposits,
                    info |-> depositInfo,
                    timedOut |-> workers[w].timedOut]
    /\ workers' = [workers EXCEPT ![w].pc = "process"]
    /\ UNCHANGED <<pending_approval, approval_result, approval_event, eventsSet,
                   signals, dialogs, mainPc, inputEnabled, deposits, depositInfo,
                   agentVars, toolVars, memoryVars, parserVars, callerVars, promptVars, laterVars>>

\* chat_window.py:145-146: process() is over, finished is emitted
WorkerFinish(w) ==
    /\ workers[w].pc = "process"
    /\ workers' = [workers EXCEPT ![w].pc = "finished"]
    /\ UNCHANGED <<pending_approval, approval_result, approval_event, eventsSet,
                   signals, dialogs, mainPc, inputEnabled, deposits, depositInfo, returned,
                   agentVars, toolVars, memoryVars, parserVars, callerVars, promptVars, laterVars>>

\* chat_window.py:1205-1209: the main thread handles finished; the event loop
\* that delivers it may be the one of an open dialog.
OnResponseReceived(w) ==
    /\ workers[w].pc = "finished"
    /\ mainPc = Idle
    /\ workers' = [workers EXCEPT ![w].pc = "done"]
    /\ inputEnabled' = TRUE
    /\ UNCHANGED <<pending_approval, approval_result, approval_event, eventsSet,
                   signals, dialogs, mainPc, deposits, depositInfo, returned,
                   agentVars, toolVars, memoryVars, parserVars, callerVars, promptVars, laterVars>>

\* chat_window.py:1234-1266: the main thread handles one ssot_approval_needed;
\* with no pending request it calls set_result(True), else it opens a dialog
\* on the request it found.
OnSsotApprovalNeeded ==
    /\ signals > 0
    /\ mainPc = Idle
    /\ signals' = signals - 1
    /\ IF pending_approval = NoRequest
       THEN /\ mainPc' = [pc |-> "assign", value |-> Approve,             \* line 1238
                          request |-> NoRequest]
            /\ UNCHANGED dialogs
       ELSE /\ dialogs' = Append(dialogs, pending_approval)
            /\ UNCHANGED mainPc
    /\ UNCHANGED <<workers, pending_approval, approval_result, approval_event,
                   eventsSet, inputEnabled, deposits, depositInfo, returned,
                   agentVars, toolVars, memoryVars, parserVars, callerVars, promptVars, laterVars>>

\* chat_window.py:1269-1273: the innermost dialog is answered
AnswerDialog ==
    /\ dialogs # <<>>
    /\ mainPc = Idle
    /\ dialogs' = SubSeq(dialogs, 1, Len(dialogs) - 1)
    /\ \E approved \in {Approve, Reject} :
          mainPc' = [pc |-> "assign", value |-> approved, request |-> dialogs[Len(dialogs)]]
    /\ UNCHANGED <<workers, pending_approval, approval_result, approval_event,
                   eventsSet, signals, inputEnabled, deposits, depositInfo, returned,
                   agentVars, toolVars, memoryVars, parserVars, callerVars, promptVars, laterVars>>

\* The request a decision was taken on (NoRequest for the automatic approval of
\* line 1238), and whether its worker is inside wait at this moment
DecidedOn(request) ==
    [request |-> request,
     waiting |-> \E w \in WorkerIds : /\ workers[w].pc = "blocked"
                                      /\ Request(w, workers[w].made) = request]

\* chat_window.py:96
SetResultAssign ==
    /\ mainPc.pc = "assign"
    /\ approval_result' = mainPc.value
    /\ deposits' = Append(deposits, mainPc.value)
    /\ depositInfo' = Append(depositInfo, DecidedOn(mainPc.request))
    /\ mainPc' = [mainPc EXCEPT !.pc = "setEvent"]
    /\ UNCHANGED <<workers, pending_approval, approval_event, eventsSet, signals,
                   dialogs, inputEnabled, returned,
                   agentVars, toolVars, memoryVars, parserVars, callerVars, promptVars, laterVars>>

\* chat_window.py:97-98
SetResultSetEvent ==
    /\ mainPc.pc = "setEvent"
    /\ eventsSet' = IF approval_event # NoRequest THEN eventsSet \cup {approval_event}
                                            ELSE eventsSet
    /\ mainPc' = Idle
    /\ UNCHANGED <<workers, pending_approval, approval_result, approval_event,
                   signals, dialogs, inputEnabled, deposits, depositInfo, returned,
                   agentVars, toolVars, memoryVars, parserVars, callerVars, promptVars, laterVars>>

WorkerStep(w) ==
    \/ WorkerEmit(w)
    \/ WorkerStore(w)
    \/ WorkerNewEvent(w)
    \/ WorkerReset(w)
    \/ WorkerCallWait(w)
    \/ WaitWoken(w)
    \/ WaitTimesOut(w)
    \/ WorkerReturn(w)
    \/ WorkerFinish(w)

BridgeNext ==
    \/ \E w \in WorkerIds : SendMessage(w)
    \/ \E w \in WorkerIds : WorkerEmit(w)
    \/ \E w \in WorkerIds : WorkerStore(w)
    \/ \E w \in WorkerIds : WorkerNewEvent(w)
    \/ \E w \in WorkerIds : WorkerReset(w)
    \/ \E w \in WorkerIds : WorkerCallWait(w)
    \/ \E w \in WorkerIds : WaitWoken(w)
    \/ \E w \in WorkerIds : WaitTimesOut(w)
    \/ \E w \in WorkerIds : WorkerReturn(w)
    \/ \E w \in WorkerIds : WorkerFinish(w)
    \/ \E w \in WorkerIds : OnResponseReceived(w)
    \/ OnSsotApprovalNeeded
    \/ AnswerDialog
    \/ SetResultAssign
    \/ SetResultSetEvent

-----------------------------------------------------------------------------
(* LLMClient._parse_tool_calls, llm.py:411-540.  A reply is a sequence of   *)
(* fragments, one per line group; each kind of fragment stands for one text *)
(* and a call is named by the position of the fragment it was read from.    *)
(*   prose                I will look at the file now.                      *)
(*   fenced_call          ```json {"tool": "read_file", "args": {...}} ```  *)
(*   fenced_malformed     ```json {"tool": "read_file" "args": {...}} ```   *)
(*   fenced_trailing      ```json {"tool": ..., "args": {...}} done ```     *)
(*   patch_files          <apply_patch>[{"path": .., "content": ..}]</..>   *)
(*   patch_tags           <apply_patch><path>..</path><content>..</content> *)
(*   patch_empty          <apply_patch>nothing</apply_patch>                *)
(*   patch_null_files     <apply_patch>{"files": null, "note":              *)
(*                           "<path>..</path><content>..</content>"}</..>   *)
(*   tag_read_file        <read_file><path>..</path></read_file>            *)
(*   tag_read_file_empty  <read_file>..</read_file>                         *)
(*   tag_list_files       <list_files><path>..</path></list_files>          *)
(*   line_call            {"tool": "read_file", "args": {...}} on one line  *)
(*   line_malformed       {"tool": "read_file" "args": {...}} on one line   *)
(*   object_call          { "tool": .., "args": {...} } over several lines  *)
(*   object_malformed     the same with a value that is not JSON            *)

Fragments ==
    {"prose", "fenced_call", "fenced_malformed", "fenced_trailing",
     "patch_files", "patch_tags", "patch_empty", "patch_null_files",
     "tag_read_file", "tag_read_file_empty", "tag_list_files",
     "line_call", "line_malformed", "object_call", "object_malformed"}

Texts == UNION {[1..n -> Fragments] : n \in 0..MaxFragments}

\* The matches of a pattern, in the order of the text (re.findall)
FindAll(content, kinds) ==
    SelectSeq([i \in 1..Len(content) |-> i], LAMBDA i : content[i] \in kinds)

ToolCall(strategy, at, tool) == [strategy |-> strategy, at |-> at, tool |-> tool]

CallsAt(strategy, places, tool) ==
    [k \in 1..Len(places) |-> ToolCall(strategy, places[k], tool)]

\* llm.py:416-430: every ```json block that json.loads accepts and that holds
\* a "tool" key; a block json.loads rejects is passed over (line 429).
FencedJson(content) == CallsAt(1, FindAll(content, {"fenced_call"}), "read_file")

ApplyPatchTags == {"patch_files", "patch_tags", "patch_empty", "patch_null_files"}

\* llm.py:447, 474: files.append raises AttributeError on the value of "files"
\* that line 447 took from the JSON of the first <apply_patch> element, which
\* is empty and not a list.
ApplyPatchRaises(content) ==
    LET places == FindAll(content, ApplyPatchTags) IN
    /\ places # <<>>
    /\ content[places[1]] = "patch_null_files"

\* llm.py:435-480: the first <apply_patch> element only (re.search); files
\* from its JSON (line 443), else from its path and content tags (line 471).
ApplyPatchTag(content) ==
    LET places == FindAll(content, ApplyPatchTags) IN
    IF places # <<>> /\ content[places[1]] \in {"patch_files", "patch_tags"}
    THEN <<ToolCall(2, places[1], "apply_patch")>>
    ELSE <<>>

\* llm.py:484-493, in the order of the dict
xml_tools == <<"read_file", "search", "run_tests", "list_files", "get_diff",
               "update_ssot", "git_commit", "git_push">>

\* The tool a tag fragment names
TagsOf(tool_name) ==
    CASE tool_name = "read_file" -> {"tag_read_file", "tag_read_file_empty"}
      [] tool_name = "list_files" -> {"tag_list_files"}
      [] OTHER -> {}

\* llm.py:495-513: for one tool, its first element only (re.search); a call
\* when a parameter was found in it (line 512).
ToolTag(content, tool_name) ==
    LET places == FindAll(content, TagsOf(tool_name)) IN
    IF places # <<>> /\ content[places[1]] # "tag_read_file_empty"
    THEN <<ToolCall(3, places[1], tool_name)>>
    ELSE <<>>

\* llm.py:494-513: the tools in the order of xml_tools
RECURSIVE ToolTagsFrom(_, _)
ToolTagsFrom(content, n) ==
    IF n > Len(xml_tools) THEN <<>>
    ELSE ToolTag(content, xml_tools[n]) \o ToolTagsFrom(content, n + 1)

ToolTags(content) == ToolTagsFrom(content, 1)

\* llm.py:517-525: every line that starts with { , holds "tool" and is JSON
SingleLineJson(content) ==
    CallsAt(4, FindAll(content, {"line_call", "fenced_call"}), "read_file")

\* llm.py:530-538: every { "tool": "..", "args": {..} } of the text that is JSON
EmbeddedJson(content) ==
    CallsAt(5, FindAll(content, {"line_call", "fenced_call", "fenced_trailing",
                                 "object_call"}), "read_file")

Returns(calls) == [done |-> TRUE, raised |-> FALSE, calls |-> calls]

Raises == [done |-> TRUE, raised |-> TRUE, calls |-> <<>>]

\* A parser that would run every strategy whatever the earlier ones found.
ParseEveryStrategy(content) ==
    IF ApplyPatchRaises(content) THEN Raises
    ELSE Returns(FencedJson(content) \o ApplyPatchTag(content) \o ToolTags(content)
                 \o SingleLineJson(content) \o EmbeddedJson(content))

\* llm.py:411-540: a strategy runs "if not tool_calls"; the result is None
\* (here the empty sequence) when no strategy found a call (line 540).
_parse_tool_calls(content) ==
    IF FencedJson(content) # <<>> THEN Returns(FencedJson(content))
    ELSE IF ApplyPatchRaises(content) THEN Raises
    ELSE IF ApplyPatchTag(content) # <<>> THEN Returns(ApplyPatchTag(content))
    ELSE IF ToolTags(content) # <<>> THEN Returns(ToolTags(content))
    ELSE IF SingleLineJson(content) # <<>> THEN Returns(SingleLineJson(content))
    ELSE Returns(EmbeddedJson(content))

NotParsed == [done |-> FALSE, raised |-> FALSE, calls |-> <<>>]

\* llm.py:368-409: generate_with_tools has a reply to parse
ParserInit ==
    /\ reply \in Texts
    /\ parsed = NotParsed

ParserIdle ==
    /\ reply = <<>>
    /\ parsed = NotParsed

\* llm.py:405: response.tool_calls = self._parse_tool_calls(response.content)
ParseReply ==
    /\ parsed = NotParsed
    /\ parsed' = _parse_tool_calls(reply)
    /\ UNCHANGED <<reply, agentVars, toolVars, memoryVars, bridgeVars, callerVars, promptVars, laterVars>>

ParserNext == ParseReply

-----------------------------------------------------------------------------
(* The callers of CodingAgent.process: the chat loop of the CLI and the      *)
(* worker thread of the desktop window                                       *)

\* agent.py:24-28. tool_results = None and tool_results = [] are both <<>> here: the
\* callers only test the field for truth (cli.py:102, chat_window.py:146)
AgentResponse(message, results, error) ==
    [raised |-> FALSE, message |-> message, tool_results |-> results, error |-> error]

\* process() left by an exception instead of a return (agent.py:134-153 and 199-211 are
\* outside every try of process)
ProcessRaised ==
    [raised |-> TRUE, message |-> "", tool_results |-> <<>>, error |-> "exception text"]

\* agent.py:127-131: the model call failed
ErrorResponse == AgentResponse("", <<>>, "LLM call failed: connection refused")

\* agent.py:213-216: the turn ended with a final response
MessageResponses ==
    {AgentResponse(m, r, None) :
        m \in {"", "answer"},
        r \in UNION {[1..n -> {Entry("apply_patch", s) : s \in BOOLEAN}] : n \in 0..MaxResults}}

ProcessOutcomes == {ErrorResponse, ProcessRaised} \cup MessageResponses

\* One thing put in front of the user: a printed line or a message widget
Shown(kind, text, results) == [kind |-> kind, text |-> text, results |-> results]

\* chat_window.py:110-111: the signals of LLMWorker and their arguments
Signal(name, text, results) == [signal |-> name, text |-> text, results |-> results]

NoSignal == Signal("none", "", <<>>)

CallerInit ==
    /\ caller \in {"cli", "desktop"}
    /\ agent_response \in ProcessOutcomes
    /\ callerPc = "called"
    /\ emitted = NoSignal
    /\ displayed = <<>>

CallerIdle ==
    /\ caller = "cli"
    /\ agent_response = ErrorResponse
    /\ callerPc = "done"
    /\ emitted = NoSignal
    /\ displayed = <<>>

\* cli.py:96-108: response = agent.process(user_input) and the report of it. An
\* exception of process is caught by no handler of the loop (cli.py:112-117)
cmd_chat ==
    /\ caller = "cli"
    /\ callerPc = "called"
    /\ displayed' =
         IF agent_response.raised
         THEN <<Shown("traceback", agent_response.error, <<>>)>>
         ELSE IF agent_response.error # None
         THEN <<Shown("error", agent_response.error, <<>>)>>            \* lines 99-100
         ELSE <<Shown("message", agent_response.message, <<>>)>>         \* line 101
              \o (IF agent_response.tool_results # <<>>                  \* lines 102-106
                  THEN <<Shown("tools", "", agent_response.tool_results)>>
                  ELSE <<>>)
    /\ callerPc' = "done"
    /\ UNCHANGED <<caller, agent_response, emitted, promptVars,
                   agentVars, toolVars, memoryVars, bridgeVars, parserVars, laterVars>>

\* chat_window.py:139-150: LLMWorker.run after process is over
LLMWorkerRun ==
    /\ caller = "desktop"
    /\ callerPc = "called"
    /\ emitted' =
         IF agent_response.raised
         THEN Signal("error", agent_response.error, <<>>)                \* lines 147-150
         ELSE Signal("finished", agent_response.message,                 \* line 146
                     agent_response.tool_results)
    /\ callerPc' = "emitted"
    /\ UNCHANGED <<caller, agent_response, displayed, promptVars,
                   agentVars, toolVars, memoryVars, bridgeVars, parserVars, laterVars>>

\* chat_window.py:1205-1222, connected to finished at line 1160
on_response_received ==
    /\ callerPc = "emitted"
    /\ emitted.signal = "finished"
    /\ displayed' =
         (IF emitted.results # <<>>                                      \* lines 1212-1217
          THEN <<Shown("tools", "",
                       SubSeq(emitted.results, 1,
                              IF Len(emitted.results) < 3 THEN Len(emitted.results) ELSE 3))>>
          ELSE <<>>)
         \o (IF emitted.text # ""                                        \* lines 1219-1220
             THEN <<Shown("message", emitted.text, <<>>)>>
             ELSE <<>>)
    /\ callerPc' = "done"
    /\ UNCHANGED <<caller, agent_response, emitted, promptVars,
                   agentVars, toolVars, memoryVars, bridgeVars, parserVars, laterVars>>

\* chat_window.py:1224-1232, connected to error at line 1161
on_response_error ==
    /\ callerPc = "emitted"
    /\ emitted.signal = "error"
    /\ displayed' = <<Shown("error", emitted.text, <<>>)>>
    /\ callerPc' = "done"
    /\ UNCHANGED <<caller, agent_response, emitted, promptVars,
                   agentVars, toolVars, memoryVars, bridgeVars, parserVars, laterVars>>

CallerNext ==
    \/ cmd_chat
    \/ LLMWorkerRun
    \/ on_response_received
    \/ on_response_error

-----------------------------------------------------------------------------
(* CodingAgent._build_prompt: the prompt of one round                        *)

\* One element of parts (agent.py:249): its kind, and for a tool-result line the
\* result it renders
Part(kind, tool, success) == [kind |-> kind, tool |-> tool, success |-> success]

Plain(kind) == Part(kind, "", FALSE)

\* The three oldest results instead of the three most recent
Oldest(results) ==
    SubSeq(results, 1, IF Len(results) > 3 THEN 3 ELSE Len(results))

\* agent.py:257: tool_results[-3:]
Recent(results) ==
    SubSeq(results, IF Len(results) > 3 THEN Len(results) - 2 ELSE 1, Len(results))

\* agent.py:258-259: glyph of the success flag, tool name, output cut to 200 characters
ResultLine(tr) == Part("result", tr.tool, tr.success)

\* agent.py:246-266
_build_prompt(results) ==
    <<Plain("context")>>                                                 \* line 252
    \o (IF results # <<>>                                                \* line 255
        THEN <<Plain("[TOOL RESULTS]")>>
             \o [i \in 1..Len(Recent(results)) |-> ResultLine(Recent(results)[i])]
             \o <<Plain("blank")>>                                       \* line 260
        ELSE <<>>)
    \o <<Plain("[USER REQUEST]"), Plain("user_input")>>                  \* lines 263-264

NotBuilt == <<>>

\* agent.py:147-153, 172-176: the entries a turn records
RecordedEntries ==
    {Entry(t, s) : t \in {"apply_patch", "get_diff", "run_tests (auto)"}, s \in BOOLEAN}

PromptInit ==
    /\ tool_results \in UNION {[1..n -> RecordedEntries] : n \in 0..MaxPromptResults}
    /\ prompt = NotBuilt

PromptIdle ==
    /\ tool_results = <<>>
    /\ prompt = NotBuilt

\* agent.py:112: prompt = self._build_prompt(user_input, context_pack, all_tool_results)
BuildPrompt ==
    /\ prompt = NotBuilt
    /\ prompt' = _build_prompt(tool_results)
    /\ UNCHANGED <<tool_results, callerVars,
                   agentVars, toolVars, memoryVars, bridgeVars, parserVars, laterVars>>

PromptNext == BuildPrompt

-----------------------------------------------------------------------------
(* ToolExecutor._validate_project_scope for project roots in several places  *)

\* tools.py:46: self.project_root = Path(project_root).resolve()
Roots == {<<"proj">>, <<"home", "me", "proj">>, <<"usr", "local", "proj">>,
          <<"home", "secrets-app">>}

\* The segments of the path arguments
ScopeNames == {"a.py", "notes..txt", "sub", ".", "..", "etc", "secrets.py"}

ScopePaths == {Rel(segs) : segs \in UNION {[1..n -> ScopeNames] : n \in 0..MaxSegments}}

NoVerdict == "<not validated>"

ScopeInit ==
    /\ scope_root \in Roots
    /\ scope_path \in ScopePaths
    /\ scope_verdict = NoVerdict

ScopeIdle ==
    /\ scope_root = project_root
    /\ scope_path = EmptyPath
    /\ scope_verdict = NoVerdict

\* tools.py:261-299: one call of _validate_project_scope
ValidateScope ==
    /\ scope_verdict = NoVerdict
    /\ scope_verdict' = ScopeVerdict(scope_root, scope_path)
    /\ UNCHANGED <<scope_root, scope_path, besidesScope>>

ScopeNext == ValidateScope

-----------------------------------------------------------------------------
(* ToolExecutor._apply_unified_diff line by line, tools.py:416-459, and the  *)
(* diff branch of _apply_patch, tools.py:334-341.  A text is the sequence    *)
(* str.split('\n') makes of it, which '\n'.join turns back into the text: a  *)
(* text that ends with a newline has "" as its last element.                 *)

\* A file: its lines, and whether the last one ends with a newline
Text(lines, newline) == [lines |-> lines, newline |-> newline]

\* tools.py:421: original.split('\n')
Split(text) == text.lines \o (IF text.newline THEN <<"">> ELSE <<>>)

\* One line of a diff after its @@ header: tag "+", "-" or " " with the rest of
\* the line, or tag "" for the empty string that split leaves after a final newline
ChangeLine(tag, text) == [tag |-> tag, text |-> text]

\* A diff: whether some line of it matches the @@ pattern (tools.py:427-428), the
\* old_start of that header, the lines after it, and the ops it was made from
Diff(valid, old_start, changes) ==
    [valid |-> valid, old_start |-> old_start, changes |-> changes]

Ops == {"keep", "delete", "add"}

\* The lines of the hunk that applies ops to the lines of a file from position pos
RECURSIVE HunkLines(_, _, _)
HunkLines(lines, pos, ops) ==
    IF ops = <<>> THEN <<>>
    ELSE IF Head(ops) = "add"
         THEN <<ChangeLine("+", "x")>> \o HunkLines(lines, pos, Tail(ops))
    ELSE <<ChangeLine(IF Head(ops) = "keep" THEN " " ELSE "-", lines[pos])>>
         \o HunkLines(lines, pos + 1, Tail(ops))

\* The number of old-side lines of a hunk: context and deleted lines
OldCount(changes) == Len(SelectSeq(changes, LAMBDA cl : cl.tag \in {" ", "-"}))

\* The new side of a hunk: context and added lines
NewSide(changes) ==
    LET kept == SelectSeq(changes, LAMBDA cl : cl.tag \in {" ", "+"})
    IN [i \in 1..Len(kept) |-> kept[i].text]

\* The text B a hunk describes for the text A: the lines before the hunk, its new
\* side, and the lines after its old side
Described(text, diff) ==
    LET k == OldCount(diff.changes) IN
    Text(SubSeq(text.lines, 1, diff.old_start - 1)
           \o NewSide(diff.changes)
           \o SubSeq(text.lines, diff.old_start + k, Len(text.lines)),
         text.newline)

\* tools.py:441-450: what each change line appends to result_lines
RECURSIVE Applied(_)
Applied(changes) ==
    IF changes = <<>> THEN <<>>
    ELSE (IF Head(changes).tag = "-" THEN <<>>                          \* lines 444-445
          ELSE <<Head(changes).text>>)                                   \* lines 442-449
         \o Applied(Tail(changes))

\* tools.py:416-459 on the split original; None when no line matches the pattern
_apply_unified_diff(lines, diff) ==
    IF ~diff.valid THEN <<None>>                                         \* line 457
    ELSE LET old_start == diff.old_start
             old_end == old_start                                        \* line 452
                        + Len(SelectSeq(diff.changes, LAMBDA cl : cl.tag # "+"))
         IN SubSeq(lines, 1, old_start - 1)                              \* line 440
            \o Applied(diff.changes)
            \o SubSeq(lines, old_end + 1, Len(lines))                    \* line 453

\* '\n'.join(result_lines) of line 455, as the split of the joined text
Joined(result_lines) == IF result_lines = <<>> THEN <<"">> ELSE result_lines

\* tools.py:334-341, 381-385: the diff branch of _apply_patch on a file that holds
\* the original; what the file holds afterwards
Patched(failed, content) == [done |-> TRUE, failed |-> failed, content |-> content]

NotPatched == [done |-> FALSE, failed |-> FALSE, content |-> <<>>]

PatchWithDiff(text, diff) ==
    LET backup_content == Split(text)
        result == _apply_unified_diff(backup_content, diff)
    IN IF backup_content = <<"">> THEN Patched(TRUE, backup_content)     \* lines 335-337
       ELSE IF result = <<None>> \/ Joined(result) = <<"">>              \* lines 339-341
            THEN Patched(TRUE, backup_content)
       ELSE Patched(FALSE, Joined(result))                               \* line 383

\* The originals and the diffs: every file of up to MaxLines lines with or without
\* a final newline, and every one-hunk diff of up to MaxChanges change lines that
\* fits it, with or without a final newline of its own, with or without a header
\* the pattern matches
Originals ==
    {Text(lines, nl) : lines \in UNION {[1..n -> {"a", "b"}] : n \in 1..MaxLines},
                       nl \in BOOLEAN}

DiffInit ==
    /\ diff_original \in Originals
    /\ \E valid \in BOOLEAN, final \in BOOLEAN, start \in 1..MaxLines :
       \E ops \in UNION {[1..n -> Ops] : n \in 1..MaxChanges} :
          /\ start + Len(SelectSeq(ops, LAMBDA o : o # "add")) - 1 <= Len(diff_original.lines)
          /\ diff_given = Diff(valid, start,
                               HunkLines(diff_original.lines, start, ops)
                                 \o (IF final THEN <<ChangeLine("", "")>> ELSE <<>>))
    /\ diff_outcome = NotPatched

DiffIdle ==
    /\ diff_original = Text(<<"a">>, FALSE)
    /\ diff_given = Diff(FALSE, 1, <<>>)
    /\ diff_outcome = NotPatched

\* tools.py:334-341, 381-385: apply_patch with a diff on the file
ApplyDiff ==
    /\ ~diff_outcome.done
    /\ diff_outcome' = PatchWithDiff(diff_original, diff_given)
    /\ UNCHANGED <<diff_original, diff_given, besidesDiff>>

DiffNext == ApplyDiff

-----------------------------------------------------------------------------
(* MemoryStore: the issues table, memory.py:117-127, 209-254.  Every call   *)
(* reads a later datetime.now() than the one before it.                      *)

\* memory.py:38: the severities, and their place in the order of their texts, which
\* is what ORDER BY severity compares
Severities == {"LOW", "MEDIUM", "HIGH", "CRITICAL"}

TextOrder(severity) ==
    CASE severity = "CRITICAL" -> 1
      [] severity = "HIGH" -> 2
      [] severity = "LOW" -> 3
      [] severity = "MEDIUM" -> 4

\* memory.py:117-126: a row of issues; resolved_at 0 and resolution None are NULL
Issue(id, created_at, status, severity, resolved_at, resolution) ==
    [id |-> id, created_at |-> created_at, status |-> status, severity |-> severity,
     resolved_at |-> resolved_at, resolution |-> resolution]

Resolutions == {"fixed", "duplicate"}

\* memory.py:117-127: the table of a new store
IssueInit ==
    /\ issue_rows = <<>>
    /\ issue_clock = 1

IssueIdle == IssueInit

\* memory.py:209-225
create_issue(severity) ==
    /\ Len(issue_rows) < MaxIssues
    /\ issue_clock <= MaxIssueCalls
    /\ issue_rows' = Append(issue_rows,
                            Issue(Len(issue_rows) + 1, issue_clock, "OPEN", severity, 0, None))
    /\ issue_clock' = issue_clock + 1
    /\ UNCHANGED besidesIssues

\* memory.py:227-240: the UPDATE names the row by its id alone
resolve_issue(issue_id, resolution) ==
    /\ issue_clock <= MaxIssueCalls
    /\ issue_rows' = [i \in 1..Len(issue_rows) |->
                         IF issue_rows[i].id = issue_id
                         THEN [issue_rows[i] EXCEPT !.status = "RESOLVED",
                                                    !.resolved_at = issue_clock,
                                                    !.resolution = resolution]
                         ELSE issue_rows[i]]
    /\ issue_clock' = issue_clock + 1
    /\ UNCHANGED besidesIssues

\* memory.py:247-249: ORDER BY severity DESC, created_at DESC
ComesFirst(r, q) ==
    \/ TextOrder(r.severity) > TextOrder(q.severity)
    \/ r.severity = q.severity /\ r.created_at >= q.created_at

RECURSIVE InQueryOrder(_)
InQueryOrder(rows) ==
    IF rows = {} THEN <<>>
    ELSE LET first == CHOOSE r \in rows : \A q \in rows : ComesFirst(r, q)
         IN <<first>> \o InQueryOrder(rows \ {first})

\* memory.py:242-254
get_open_issues(rows) ==
    InQueryOrder({rows[i] : i \in {j \in 1..Len(rows) : rows[j].status = "OPEN"}})

IssueNext ==
    \/ \E severity \in Severities : create_issue(severity)
    \/ \E issue_id \in 1..MaxIssues, resolution \in Resolutions :
          resolve_issue(issue_id, resolution)

-----------------------------------------------------------------------------
(* ContextPack and ContextBuilder, context.py:19-192.  A text is a token, a  *)
(* line of the prompt is the sequence of the pieces it is formatted from,    *)
(* and the prompt is the sequence of lines that to_prompt joins.  The texts  *)
(* of the model are shorter than any of the cuts ([:500], [:300], [:200]).   *)

\* context.py:20-38
ContextPack(state, task, files, turns, issues, changes) ==
    [project_state |-> state, current_task |-> task, related_files |-> files,
     recent_turns |-> turns, open_issues |-> issues, recent_changes |-> changes]

\* The texts of the turns and the titles of the issues, by id
TurnTexts == <<"t1", "t2", "t3", "t4", "t5", "t6">>

IssueTitles == <<"i1", "i2", "i3", "i4", "i5", "i6">>

\* context.py:182-185
TurnDict(id) ==
    [role |-> IF id % 2 = 1 THEN "user" ELSE "assistant", content |-> TurnTexts[id]]

\* context.py:186-189
IssueDict(row) == [severity |-> row.severity, title |-> IssueTitles[row.id]]

\* context.py:58: the first n of a list, list[:n]
FirstOf(list, n) == SubSeq(list, 1, IF Len(list) < n THEN Len(list) ELSE n)

\* a variant of LastThree that takes the turns from the front of the list
FirstThree(turns) == FirstOf(turns, 3)

\* context.py:82: recent_turns[-3:]
LastThree(turns) == SubSeq(turns, IF Len(turns) > 3 THEN Len(turns) - 2 ELSE 1, Len(turns))

\* context.py:58-64: the three lines of each related file
RECURSIVE FileLines(_)
FileLines(files) ==
    IF files = <<>> THEN <<>>
    ELSE << <<"--- ", files[1].path, " ---">>, <<files[1].content>>, <<"">> >>
         \o FileLines(Tail(files))

\* context.py:69
IssueLine(issue) == <<"- [", issue.severity, "] ", issue.title>>

\* context.py:83-85
TurnLine(turn) == <<turn.role, ": ", turn.content>>

\* context.py:40-88
to_prompt(pack) ==
    << <<"[PROJECT STATE]">>, pack.project_state, <<"">> >>
    \o (IF pack.current_task # ""
        THEN << <<"[CURRENT TASK]">>, <<pack.current_task>>, <<"">> >>
        ELSE <<>>)
    \o (IF pack.related_files # <<>>
        THEN << <<"[RELATED FILES]">> >> \o FileLines(FirstOf(pack.related_files, 5))
        ELSE <<>>)
    \o (IF pack.open_issues # <<>>
        THEN << <<"[OPEN ISSUES]">> >>
             \o [i \in 1..Len(FirstOf(pack.open_issues, 3)) |->
                    IssueLine(pack.open_issues[i])]
             \o << <<"">> >>
        ELSE <<>>)
    \o (IF pack.recent_changes # ""
        THEN << <<"[RECENT CHANGES]">>, <<pack.recent_changes>>, <<"">> >>
        ELSE <<>>)
    \o (IF pack.recent_turns # <<>>
        THEN << <<"[RECENT CONVERSATION]">> >>
             \o [i \in 1..Len(LastThree(pack.recent_turns)) |->
                    TurnLine(LastThree(pack.recent_turns)[i])]
             \o << <<"">> >>
        ELSE <<>>)

\* context.py:107-129: what exists() and read_text(encoding="utf-8") meet
Documents == {"absent", "present", "unreadable"}

\* context.py:99-105: no config/models.yaml, an empty one (safe_load gives None), or
\* one with context.max_recent_turns
Configs == {"absent", "empty", "max_recent_turns: 2"}

\* context.py:136-146: how `git status --short` ends
GitOutcomes == {"changes", "clean", "not a repository", "timeout", "tool missing"}

\* context.py:157: the task argument
Tasks == {"", "fix the parser"}

\* memory.py:99-126: a store with n turns and n open issues
StoredTurns(n) == {Row(i, i) : i \in 1..n}

StoredIssues(n) ==
    [i \in 1..n |->
        Issue(i, i, "OPEN",
              CASE i % 4 = 1 -> "CRITICAL" [] i % 4 = 2 -> "HIGH"
                [] i % 4 = 3 -> "LOW" [] OTHER -> "MEDIUM",
              0, None)]

Environment(handover, constitution, config, git, turns, issues) ==
    [handover |-> handover, constitution |-> constitution, config |-> config,
     git |-> git, turns |-> turns, issues |-> issues]

Environments ==
    {Environment(handover, constitution, config, git, StoredTurns(turns),
                 StoredIssues(issues)) :
        handover \in Documents, constitution \in Documents, config \in Configs,
        git \in GitOutcomes, turns \in 0..MaxPackEntries, issues \in 0..MaxPackEntries}

NoEnvironment == Environment("absent", "absent", "absent", "not run", {}, <<>>)

\* context.py:107-129
_read_ssot(handover, constitution) ==
    LET ssot_parts ==
            (IF handover = "present"
             THEN <<"## Current State (HANDOVER.md)", "HANDOVER.md[:50]">> ELSE <<>>)
            \o (IF constitution = "present"
                THEN <<"\n## Rules (CONSTITUTION.md)", "CONSTITUTION.md[:30]">> ELSE <<>>)
    IN IF ssot_parts # <<>> THEN ssot_parts ELSE <<"(No SSOT documents found)">>

\* context.py:113, 121: read_text is in no try block
ReadSsotRaises(handover, constitution) ==
    handover = "unreadable" \/ constitution = "unreadable"

\* context.py:131-148
_get_recent_changes(git) ==
    CASE git = "changes" -> " M a.py"
      [] git = "clean" -> "(No changes)"
      [] git = "not a repository" -> "(Not a git repo)"
      [] OTHER -> ""

\* context.py:163-165: self.config.get of the None an empty models.yaml loads as
ConfigGetRaises(config) == config = "empty"

MaxRecentTurns(config) == IF config = "max_recent_turns: 2" THEN 2 ELSE 5

\* How build ended: with a pack, or with an exception
Built(pack) == [kind |-> "pack", pack |-> pack]

BuildRaised == [kind |-> "raised", pack |-> ContextPack(<<>>, "", <<>>, <<>>, <<>>, "")]

NoPack == [kind |-> "none", pack |-> ContextPack(<<>>, "", <<>>, <<>>, <<>>, "")]

NotRendered == <<>>

\* context.py:157-192: the packs build can return in an environment
BuildOutcomes(env, task) ==
    IF ReadSsotRaises(env.handover, env.constitution) \/ ConfigGetRaises(env.config)
    THEN {BuildRaised}
    ELSE {Built(ContextPack(
              _read_ssot(env.handover, env.constitution),
              task,
              <<>>,
              [i \in DOMAIN s |-> TurnDict(s[i].id)],
              [i \in 1..Len(get_open_issues(env.issues)) |->
                  IssueDict(get_open_issues(env.issues)[i])],
              _get_recent_changes(env.git))) :
            s \in UNION {OldestFirst(K) :
                            K \in NewestByTimestamp(env.turns, MaxRecentTurns(env.config))}}

\* context.py:93-97: a new builder
ContextInit ==
    /\ ctx_env = NoEnvironment
    /\ ctx_outcome = NoPack
    /\ ctx_prompt = NotRendered

ContextIdle == ContextInit

\* context.py:157-192
build(env, task) ==
    /\ ctx_outcome = NoPack
    /\ ctx_env' = env
    /\ ctx_outcome' \in BuildOutcomes(env, task)
    /\ UNCHANGED <<ctx_prompt, besidesContext>>

\* context.py:19-38: a pack made by its constructor
RelatedFiles == {<<>>, <<[path |-> "a.py", content |-> "x = 1"]>>}

Packs ==
    {ContextPack(project_state, current_task, related_files,
                 [i \in 1..turns |-> TurnDict(i)],
                 [i \in 1..issues |-> IssueDict(StoredIssues(issues)[i])],
                 recent_changes) :
        project_state \in {_read_ssot("absent", "absent"), _read_ssot("present", "absent")},
        current_task \in Tasks, related_files \in RelatedFiles,
        turns \in 0..MaxPackEntries, issues \in 0..MaxPackEntries,
        recent_changes \in {"", " M a.py"}}

NewContextPack(pack) ==
    /\ ctx_outcome = NoPack
    /\ ctx_outcome' = Built(pack)
    /\ UNCHANGED <<ctx_env, ctx_prompt, besidesContext>>

\* context.py:40-88
RenderPrompt ==
    /\ ctx_outcome.kind = "pack"
    /\ ctx_prompt = NotRendered
    /\ ctx_prompt' = to_prompt(ctx_outcome.pack)
    /\ UNCHANGED <<ctx_env, ctx_outcome, besidesContext>>

ContextNext ==
    \/ \E env \in Environments, task \in Tasks : build(env, task)
    \/ \E pack \in Packs : NewContextPack(pack)
    \/ RenderPrompt

-----------------------------------------------------------------------------
ToolNext ==
    \/ SetApprovalCallback
    \/ TakeResult
    \/ ExecApplyPatch
    \/ ExecReadFile
    \/ ExecListFiles
    \/ ExecGetDiff
    \/ ExecGitCommit
    \/ ExecUpdateSsot
    \/ ExecSubprocessTool
    \/ ExecWithoutMapping
    \/ ExecUnknownName

AgentNext ==
    \/ StartTurn
    \/ GenerateFails
    \/ GenerateFinal
    \/ GenerateTools
    \/ DispatchTool
    \/ AutoTest
    \/ Summarize

LaterIdle == ScopeIdle /\ DiffIdle /\ IssueIdle /\ ContextIdle

EarlierIdle ==
    AgentInit /\ ToolIdle /\ MemoryIdle /\ BridgeInit /\ ParserIdle /\ CallerIdle /\ PromptIdle

\* The parts of the program a specification does not exercise stay idle
OthersIdle == MemoryIdle /\ BridgeInit /\ ParserIdle /\ CallerIdle /\ PromptIdle /\ LaterIdle

Init == AgentInit /\ ToolIdle /\ OthersIdle

Spec == Init /\ [][AgentNext]_vars

ToolSpecInit == ToolInit /\ AgentInit /\ OthersIdle

ToolSpec == ToolSpecInit /\ [][ToolNext]_vars

MemorySpecInit == MemoryInit /\ AgentInit /\ ToolIdle /\ BridgeInit /\ ParserIdle /\ CallerIdle /\ PromptIdle /\ LaterIdle

MemorySpec == MemorySpecInit /\ [][MemoryNext]_vars

BridgeSpecInit == BridgeInit /\ AgentInit /\ ToolIdle /\ MemoryIdle /\ ParserIdle /\ CallerIdle /\ PromptIdle /\ LaterIdle

RepeatNext ==
    \/ ExecApplyPatch
    \/ ExecApplyPatchAgain

RepeatSpecInit == ToolInit /\ AgentInit /\ OthersIdle

RepeatSpec == RepeatSpecInit /\ [][RepeatNext]_vars

ParserSpecInit == ParserInit /\ AgentInit /\ ToolIdle /\ MemoryIdle /\ BridgeInit /\ CallerIdle /\ PromptIdle /\ LaterIdle

ParserSpec == ParserSpecInit /\ [][ParserNext]_vars

\* The callers of process alone: every outcome of process, on both caller paths
CallerSpecInit ==
    CallerInit /\ AgentInit /\ ToolIdle /\ MemoryIdle /\ BridgeInit /\ ParserIdle /\ PromptIdle
    /\ LaterIdle

CallerSpec == CallerSpecInit /\ [][CallerNext]_vars

\* _build_prompt alone: every list of recorded results up to the bound
PromptSpecInit ==
    PromptInit /\ AgentInit /\ ToolIdle /\ MemoryIdle /\ BridgeInit /\ ParserIdle /\ CallerIdle
    /\ LaterIdle

PromptSpec == PromptSpecInit /\ [][PromptNext]_vars

\* _validate_project_scope alone: every root and every path up to the bound
ScopeSpecInit == ScopeInit /\ EarlierIdle /\ DiffIdle /\ IssueIdle /\ ContextIdle

ScopeSpec == ScopeSpecInit /\ [][ScopeNext]_vars

\* The diff branch of apply_patch alone: every original and every fitting diff
DiffSpecInit == DiffInit /\ EarlierIdle /\ ScopeIdle /\ IssueIdle /\ ContextIdle

DiffSpec == DiffSpecInit /\ [][DiffNext]_vars

\* The issues table alone
IssueSpecInit == IssueInit /\ EarlierIdle /\ ScopeIdle /\ DiffIdle /\ ContextIdle

IssueSpec == IssueSpecInit /\ [][IssueNext]_vars

\* ContextBuilder.build and ContextPack.to_prompt alone
ContextSpecInit == ContextInit /\ EarlierIdle /\ ScopeIdle /\ DiffIdle /\ IssueIdle

ContextSpec == ContextSpecInit /\ [][ContextNext]_vars

\* Event.wait(timeout=300) returns, and a running thread goes on running.
BridgeSpec ==
    BridgeSpecInit /\ [][BridgeNext]_vars
       /\ \A w \in WorkerIds : WF_vars(WorkerStep(w))

-----------------------------------------------------------------------------
(* Properties of Agent.process, checked under Spec *)

\* Every generate_with_tools call of the turn so far returned tool calls.
AlwaysToolCalls ==
    /\ genOutcomes # <<>>
    /\ \A i \in 1..Len(genOutcomes) : genOutcomes[i] = "tools"

\* C1: a turn makes at most MAX_ITERATIONS generate_with_tools calls, and a
\* turn in which every one of them returned tool calls has, when process() is
\* over, made exactly one tool-free summarizing generate call and handed back
\* a message.
CexC1 ==
    /\ Len(genOutcomes) <= MAX_ITERATIONS
    /\ (pc = "returned" /\ AlwaysToolCalls) =>
          /\ sumGenCalls = 1
          /\ response = "message"

\* C2: once a generate_with_tools call has raised, the turn is over with an
\* error result: that call is the last generate_with_tools call of the turn,
\* no summarizing call is made, no tool call is left to run, and no assistant
\* turn is recorded.
ThmC2 ==
    \A i \in 1..Len(genOutcomes) :
       genOutcomes[i] = "raise" =>
          /\ i = Len(genOutcomes)
          /\ pc = "returned"
          /\ response = "error"
          /\ sumGenCalls = 0
          /\ tool_calls = <<>>
          /\ turnLog = <<"user">>

\* C2, its case: the third generate_with_tools call of a turn raised after
\* tools had run in the two rounds before it.
WitC2 ==
    /\ pc = "returned"
    /\ response = "error"
    /\ Len(genOutcomes) = 3
    /\ genOutcomes[3] = "raise"
    /\ Len(all_tool_results) >= 2

\* C3: when the last generate_with_tools call returned no tool call, the turn
\* is over at once: the content of that response is handed back as the
\* message and no summarizing generate call is made.
CexC3 ==
    (genOutcomes # <<>> /\ genOutcomes[Len(genOutcomes)] = "no_tools") =>
       /\ pc = "returned"
       /\ response = "message"
       /\ sumGenCalls = 0

\* The step records the result of a dispatched tool call, and it is a failure.
RecordsFailure ==
    /\ pc = "Dispatch"
    /\ Len(all_tool_results') = Len(all_tool_results) + 1
    /\ ~all_tool_results'[Len(all_tool_results')].success

ThmC21 ==
    /\ (pc = "AwaitingModel" \/ genOutcomes # <<>>) =>
          (turnLog # <<>> /\ turnLog[1] = "user")
    /\ genOutcomes = <<"raise">> => turnLog = <<"user">>

\* C21, its case: the only model call of the turn raised and the user turn
\* is recorded.
WitC21 ==
    /\ genOutcomes = <<"raise">>
    /\ turnLog = <<"user">>

CexC25 ==
    (pc = "returned" /\ response # "error") =>
       /\ response = "message"
       /\ turnLog = <<"user", "assistant">>
       /\ workLog = <<ChatLog(all_tool_results)>>

\* The step is the automatic test run of a round: it adds the result of
\* run_tests to the list.
AutoTestRuns ==
    /\ pc = "AutoTest"
    /\ Len(all_tool_results') = Len(all_tool_results) + 1

\* A write-type call of the current round succeeded.
RoundHasWrite ==
    \E i \in (roundBase + 1)..Len(all_tool_results) :
       all_tool_results[i].tool = "apply_patch" /\ all_tool_results[i].success

\* C26: the automatic test run of a round happens only if an apply_patch call
\* of that round succeeded, at most once in the round and after the results
\* of the round: a round without a successful write runs no test.
CexC26 ==
    [][AutoTestRuns =>
          /\ RoundHasWrite
          /\ all_tool_results' = Append(all_tool_results,
                                        all_tool_results'[Len(all_tool_results')])
          /\ all_tool_results'[Len(all_tool_results')].tool = "run_tests (auto)"
          /\ pc' # "AutoTest"
      ]_vars

\* C28: the tool calls of a response run one at a time in the order parsed:
\* the call dispatched is the first one not yet run, its result is in hand
\* before the next one is dispatched and is recorded at the end of the
\* tool-result list, and the calls after it stay queued in their order.
ThmC28 ==
    [][(pc = "Dispatch" /\ response' # "exception") =>
          /\ tool_calls # <<>>
          /\ Len(all_tool_results') = Len(all_tool_results) + 1
          /\ SubSeq(all_tool_results', 1, Len(all_tool_results)) = all_tool_results
          /\ all_tool_results'[Len(all_tool_results')].tool = Head(tool_calls).tool
          /\ tool_calls' = Tail(tool_calls)
      ]_vars

\* C28, its case: a response called apply_patch and then get_diff; apply_patch
\* has run and failed, get_diff has run after it and succeeded, and the two
\* results are recorded in that order.
WitC28 ==
    /\ pc = "AutoTest"
    /\ Len(genOutcomes) = 1
    /\ all_tool_results = <<Entry("apply_patch", FALSE), Entry("get_diff", TRUE)>>

-----------------------------------------------------------------------------
(* Properties of ToolExecutor.execute, checked under ToolSpec *)

\* The last call handed one file to apply_patch, with a content, at a path
\* inside the project that names a governance document.
PatchesOneSsotFile ==
    /\ last.tool = "apply_patch"
    /\ Len(last.files) = 1
    /\ last.files[1].content # None
    /\ IsSsotFile(last.files[1].path)
    /\ ValidateProjectScope(last.files[1].path) = "ok"

\* The governance documents among the files written by the last call.
SsotWrites ==
    {i \in 1..Len(last.writes) : last.writes[i].file[Len(last.writes[i].file)] \in SSOT_FILES}

\* C5: with no approval callback registered, apply_patch on a governance
\* document never writes the file, for every proposed content: it queues
\* exactly one PendingSSOTChange and reports that approval is required.
CexC5 ==
    (PatchesOneSsotFile /\ ~last.hasCallback) =>
       /\ last.writes = <<>>
       /\ last.queued = 1
       /\ last.results = <<"approval_required">>

\* C6: with no approval callback registered, update_ssot on a governance
\* document never writes the file: it queues exactly one PendingSSOTChange and
\* reports that approval is required.
CexC6 ==
    (last.tool = "update_ssot" /\ ~last.hasCallback /\ last.path # NoPath
        /\ IsSsotFile(last.path)) =>
       /\ last.writes = <<>>
       /\ last.queued = 1
       /\ last.results = <<"approval_required">>

\* C7: with an approval callback registered, a governance document is written
\* by apply_patch or update_ssot only if the callback was called for that
\* file with that new content and returned true; a file the callback
\* rejected is not written.
CexC7 ==
    (last.tool \in {"apply_patch", "update_ssot"} /\ last.hasCallback) =>
       /\ \A i \in SsotWrites :
             \E j \in 1..Len(last.callbacks) :
                /\ last.callbacks[j].approved
                /\ last.callbacks[j].file_path = last.writes[i].file
                /\ last.callbacks[j].new_content = last.writes[i].content
                /\ last.callbacks[j].file_name \in SSOT_FILES
       /\ \A j \in 1..Len(last.callbacks) :
             ~last.callbacks[j].approved =>
                \A i \in 1..Len(last.writes) :
                   last.writes[i].file # last.callbacks[j].file_path

\* The path the last read_file or one-file apply_patch call was given.
TargetPath ==
    IF last.tool = "apply_patch" THEN last.files[1].path ELSE last.path

\* C8: read_file and apply_patch fail on a path that resolves outside the
\* project root, has a ".." segment or is absolute, and they reject it before
\* any file-system access to the target.
CexC8 ==
    (/\ \/ last.tool = "read_file"
        \/ last.tool = "apply_patch" /\ Len(last.files) = 1
     /\ Escapes(TargetPath)) =>
       /\ ~last.result.success
       /\ last.writes = <<>>
       /\ ~last.uncheckedAccess

\* C9: every tool that takes a path (here list_files, get_diff, git_commit)
\* fails on a path that escapes the project root, without handing the path to
\* the file system or to git.
CexC9 ==
    (/\ last.tool \in {"list_files", "get_diff", "git_commit"}
     /\ last.path # NoPath
     /\ Escapes(last.path)) =>
       /\ ~last.result.success
       /\ ~last.uncheckedAccess

\* C10: execute never lets an exception out, whatever the tool name, the
\* args and the failures of the handler and of the work-log store: every
\* call ends in a ToolResult.
CexC10 == last.result.kind = "result"

\* C11: every execute call that returns a ToolResult has appended one WorkLog
\* row for it, with result SUCCESS when the ToolResult has success = true and
\* FAIL otherwise, for every tool name.
CexC11 ==
    (last # NoCall /\ last.result.kind = "result") =>
       last.result.logged = (IF last.result.success THEN "SUCCESS" ELSE "FAIL")

\* The step is an execute call with a text name that is no tool of the catalog.
CallsUnknownTool ==
    /\ last = NoCall
    /\ last' # NoCall
    /\ last'.tool \notin Handlers
    /\ last'.tool # Unhashable

\* C12: execute with a name that is not in the tool catalog returns
\* success = false with its error set, and nothing a handler does has
\* happened: no file is written or looked at, nothing is queued, the approval
\* callback is not asked, and no WorkLog row follows a handler's return.
ThmC12 ==
    [][CallsUnknownTool =>
          /\ last'.result = ToolResult(FALSE, TRUE, "")
          /\ fs' = fs
          /\ pending_ssot_changes' = pending_ssot_changes
          /\ last'.writes = <<>>
          /\ last'.callbacks = <<>>
          /\ ~last'.uncheckedAccess
      ]_vars

\* C12, its case: execute("no_such_tool", ...) has returned, on a project
\* tree that holds files.
WitC12 ==
    /\ last.tool = "no_such_tool"
    /\ last.result.kind = "result"
    /\ ~last.result.success
    /\ fs[<<"proj", "a.py">>] = "v1"

\* C13: every ToolResult returned by execute, for every tool and every
\* outcome, has success = false whenever its error is set.
ThmC13 ==
    (last # NoCall /\ last.result.kind = "result" /\ last.result.error) =>
       ~last.result.success

\* C13, its case: git_commit returned a ToolResult with its error set
\* (tools.py:617-623), on an executor whose other calls can succeed.
WitC13 ==
    /\ last.tool = "git_commit"
    /\ last.path = PathAPy
    /\ last.result.kind = "result"
    /\ last.result.error
    /\ last.result.logged = "FAIL"

-----------------------------------------------------------------------------
(* Properties of the conversation-turn store, checked under MemorySpec *)

\* The ids of the rows in the table.
StoredIds == {r.id : r \in conversation_turns}

\* C14: with max_turns fixed, once more than max_turns turns have been added
\* the table holds exactly the max_turns most recently added turns, and
\* get_recent_turns returns turns of it ordered oldest to newest.
CexC14 ==
    adds > max_turns =>
       /\ StoredIds = (next_id - max_turns)..(next_id - 1)
       /\ \A i, j \in 1..Len(retrieved) : i < j => retrieved[i] < retrieved[j]

\* C15: the number of stored conversation turns never exceeds the max_turns
\* currently configured, under every sequence of add_turn, set_max_turns,
\* get_memory_store and clear_conversation calls.
CexC15 == Cardinality(conversation_turns) <= max_turns

-----------------------------------------------------------------------------
(* Properties of the approval handshake, checked under BridgeSpec *)

\* The value of the last return follows the decisions deposited since the
\* worker reset approval_result for that call.
ReturnsDeposited ==
    returned.request # NoRequest =>
       /\ returned.deposits # <<>> =>
             returned.value = returned.deposits[Len(returned.deposits)]
       /\ (returned.timedOut /\ returned.deposits = <<>>) => returned.value = Reject
       /\ returned.deposits = <<>> => returned.value = Reject

\* C16: request_approval always returns: a worker inside the call gets back
\* to process(), the wait ending by itself when nobody answers; it returns
\* the decision set_result deposited while the worker was waiting, and a
\* rejection when the wait timed out with no decision deposited.
ThmC16 ==
    /\ []ReturnsDeposited
    /\ \A w \in WorkerIds :
          (workers[w].pc \in Outstanding) ~> (workers[w].pc = "process")

\* C16, its case: a decision deposited while the worker was blocked in wait
\* woke it and came back as the return value.
WitC16 ==
    /\ returned.request # NoRequest
    /\ returned.deposits = <<Approve>>
    /\ returned.value = Approve
    /\ ~returned.timedOut

\* The workers inside process() and, of them, those inside an approval request.
Running == {w \in WorkerIds : workers[w].pc \in Outstanding \cup {"process"}}
Requesting == {w \in WorkerIds : workers[w].pc \in Outstanding}

\* C17: at most one approval request is outstanding at any time: at most one
\* worker runs, and it is inside at most one request_approval call.
ThmC17 ==
    /\ Cardinality(Running) <= 1
    /\ Cardinality(Requesting) <= 1

\* C17, its case: a worker is blocked in its second request after its first
\* one timed out, the dialog of the first still open.
WitC17 ==
    \E w \in WorkerIds :
       /\ workers[w].pc = "blocked"
       /\ workers[w].made = 2
       /\ returned.request = Request(w, 1)
       /\ returned.timedOut
       /\ dialogs # <<>>
       /\ dialogs[1] = Request(w, 1)

\* What each strategy finds in a text on its own, in the order of priority
Strategies(content) ==
    <<FencedJson(content), ApplyPatchTag(content), ToolTags(content),
      SingleLineJson(content), EmbeddedJson(content)>>

\* A block of fenced JSON that does not parse, then a read_file tag, nothing
\* else but prose: the call of the tag is what comes back.
FallsBackToTag ==
    \A i, j \in 1..Len(reply) :
       (/\ i < j
        /\ reply[i] = "fenced_malformed"
        /\ reply[j] = "tag_read_file"
        /\ \A k \in 1..Len(reply) \ {i, j} : reply[k] = "prose")
       => parsed.calls = <<ToolCall(3, j, "read_file")>>

\* C18: the five strategies are tried in the order fenced JSON, apply_patch
\* tag, tool tags, single-line JSON, embedded JSON: what is returned is what
\* the first strategy that finds a call finds, so a call of a strategy is
\* returned only when every strategy before it found none; a fenced block
\* that does not parse is skipped and a tool tag after it is returned.
ThmC18 ==
    (parsed.done /\ ~parsed.raised) =>
       /\ \A k \in 1..5 :
             (/\ Strategies(reply)[k] # <<>>
              /\ \A h \in 1..(k - 1) : Strategies(reply)[h] = <<>>)
             => parsed.calls = Strategies(reply)[k]
       /\ \A n \in 1..Len(parsed.calls) :
             \A h \in 1..(parsed.calls[n].strategy - 1) : Strategies(reply)[h] = <<>>
       /\ FallsBackToTag

\* C18, its case: the fenced block does not parse, the read_file tag after
\* it is returned and the single-line JSON after the tag is not.
WitC18 ==
    /\ parsed.done
    /\ reply = <<"fenced_malformed", "tag_read_file", "line_call">>
    /\ parsed.calls = <<ToolCall(3, 2, "read_file")>>

\* The fragments no strategy reads a call from
NoCallFragments ==
    {"prose", "fenced_malformed", "patch_empty", "patch_null_files",
     "tag_read_file_empty", "line_malformed", "object_malformed"}

\* C19: _parse_tool_calls never raises, and for a text with no tool syntax or
\* with malformed candidates only it returns the empty result.
CexC19 ==
    parsed.done =>
       /\ ~parsed.raised
       /\ (\A i \in 1..Len(reply) : reply[i] \in NoCallFragments) => parsed.calls = <<>>

\* The files of the call are {path, content} pairs outside the governance names
ContentOnPlainPaths(files) ==
    \A i \in 1..Len(files) :
       /\ files[i].content # None
       /\ ~IsSsotFile(files[i].path)

HandlesSignal == signals' = signals - 1

\* C24: whenever the main thread handles an approval signal, get_pending()
\* gives the request of the worker that emitted it and is inside
\* request_approval for it: never none, never an earlier request.
CexC24 ==
    [][HandlesSignal =>
          \E w \in WorkerIds :
             /\ workers[w].pc \in Outstanding \ {"store"}
             /\ pending_approval = Request(w, workers[w].made)
      ]_vars

\* The calls the text holds for the strategy that returned, place by place
ValidAt(content, strategy) ==
    CASE strategy = 1 -> FindAll(content, {"fenced_call"})
      [] strategy = 2 -> FindAll(content, {"patch_files", "patch_tags"})
      [] strategy = 3 -> FindAll(content, {"tag_read_file", "tag_list_files"})
      [] strategy = 4 -> FindAll(content, {"line_call"})
      [] strategy = 5 -> FindAll(content, {"fenced_trailing", "object_call"})

\* C27: what _parse_tool_calls returns is every valid call of the strategy
\* that found it, in the order of the text.
CexC27 ==
    (parsed.done /\ parsed.calls # <<>>) =>
       LET places == ValidAt(reply, parsed.calls[1].strategy) IN
       /\ Len(parsed.calls) = Len(places)
       /\ \A n \in 1..Len(parsed.calls) : parsed.calls[n].at = places[n]


-----------------------------------------------------------------------------
(* Properties of the callers of process                                      *)

\* C23: when process() returns an AgentResponse with error set, the caller, CLI chat
\* loop or desktop worker, shows that error text to the user.
CexC23 ==
    (callerPc = "done" /\ ~agent_response.raised /\ agent_response.error # None) =>
        \E i \in 1..Len(displayed) :
            /\ displayed[i].kind = "error"
            /\ displayed[i].text = agent_response.error

-----------------------------------------------------------------------------
(* Properties of _build_prompt                                               *)

IsResultLine(part) == part.kind = "result"

\* C29: the prompt is the rendered context, then the tool-result section, then the
\* user request, in that order; the section has at most 3 result lines, and they are
\* the most recently recorded results of the turn in their order, however many results
\* there are (the section is there exactly when the turn has a result).
ThmC29 ==
    prompt # NotBuilt =>
        LET n == Len(tool_results)
            k == IF n > 3 THEN 3 ELSE n
            section == SubSeq(prompt, 2, Len(prompt) - 2)
            lines == SelectSeq(prompt, IsResultLine)
        IN /\ prompt[1] = Plain("context")
           /\ SubSeq(prompt, Len(prompt) - 1, Len(prompt))
                = <<Plain("[USER REQUEST]"), Plain("user_input")>>
           /\ Len(lines) = k
           /\ \A i \in 1..k : lines[i] = ResultLine(tool_results[n - k + i])
           /\ IF n = 0
              THEN section = <<>>
              ELSE section = <<Plain("[TOOL RESULTS]")>> \o lines \o <<Plain("blank")>>

\* Four results are recorded, the oldest one an apply_patch and no other: the prompt
\* has the three later ones and no apply_patch line
WitC29 ==
    /\ prompt # NotBuilt
    /\ Len(tool_results) = 4
    /\ tool_results[1].tool = "apply_patch"
    /\ \A i \in 2..4 : tool_results[i].tool # "apply_patch"
    /\ Len(prompt) = 8
    /\ \A i \in 1..Len(prompt) : prompt[i].tool # "apply_patch"


-----------------------------------------------------------------------------
(* Properties of the writes of apply_patch                                   *)

ApplyPatchReturns == last = NoCall /\ last'.tool = "apply_patch"

\* The file was written completely by the call and its index row has the hash of
\* what was written
WrittenAndIndexed(path, full_path) ==
    /\ \E w \in 1..Len(last'.writes) :
          last'.writes[w] = [file |-> full_path, content |-> ReadText(fs', full_path)]
    /\ \E x \in 1..Len(last'.indexed) :
          last'.indexed[x] = [path |-> path,
                              content_hash |-> Hash(ReadText(fs', full_path))]

\* C30: for each file of an apply_patch call, either the file is written completely
\* and its file-index row has the hash of the written content, or the file is left
\* as it was; a file that fails the sandbox check is never written.
CexC30 ==
    [][ApplyPatchReturns =>
        \A i \in 1..Len(last'.files) :
           LET path == last'.files[i].path
               full_path == Resolve(Join(project_root, path))
           IN path # EmptyPath =>
                /\ \/ WrittenAndIndexed(path, full_path)
                   \/ ReadText(fs', full_path) = ReadText(fs, full_path)
                /\ ValidateProjectScope(path) # "ok" =>
                      /\ ReadText(fs', full_path) = ReadText(fs, full_path)
                      /\ \A w \in 1..Len(last'.writes) : last'.writes[w].file # full_path]_vars


-----------------------------------------------------------------------------
(* Properties of the end of Agent.process                                    *)

\* C36: process() hands back an AgentResponse and never leaves by an exception,
\* whatever tool calls the parsed model response carries (an args value that is no
\* mapping, argument values of unexpected types, a tool value that is no string).
CexC36 == pc = "returned" => response \in {"message", "error"}

\* agent.py:128-131, 213-216: the tool_results field of the AgentResponse; the error
\* result is built without it
ReportedResults == IF response = "message" THEN all_tool_results ELSE <<>>

\* C38: when process() returns an error result, no tool has changed the project
\* files in the turn, and the results of the tools that ran before the error, if
\* any ran, are in the response.
CexC38 ==
    (pc = "returned" /\ response = "error") =>
        /\ ~AnyPatchSucceeded(all_tool_results)
        /\ all_tool_results = <<>> \/ ReportedResults = all_tool_results


-----------------------------------------------------------------------------
(* Properties of the result of apply_patch                                   *)

\* C37: apply_patch reports success only if every file entry of the call was
\* written; a call whose entries lack a path, or carry neither content nor diff,
\* writes nothing and does not report success.
CexC37 ==
    (last.tool = "apply_patch" /\ last.result.kind = "result" /\ last.result.success) =>
        \A i \in 1..Len(last.files) :
           \E w \in 1..Len(last.writes) :
              last.writes[w].file = Resolve(Join(project_root, last.files[i].path))


-----------------------------------------------------------------------------
(* Properties of _validate_project_scope                                     *)

\* What the check is specified to accept: a relative path that resolves inside the
\* root, has no parent-directory segment and, taken by itself, names no sensitive
\* location
Acceptable(root, path) ==
    /\ ~path.abs
    /\ IsRelativeTo(Resolve(Join(root, path)), root)
    /\ \A i \in 1..Len(path.segs) : path.segs[i] # ".."
    /\ ~IsSensitive(Resolve(path.segs))

\* C39: the check accepts every relative path that resolves inside the project
\* root, has no ".." segment and names no sensitive location, a file name with two
\* consecutive dots included, and its verdict for a relative path is the same
\* wherever the project root is.
CexC39 ==
    scope_verdict # NoVerdict =>
        /\ Acceptable(scope_root, scope_path) => scope_verdict = "ok"
        /\ \A root \in Roots : ScopeVerdict(root, scope_path) = scope_verdict


-----------------------------------------------------------------------------
(* Properties of the decisions handed through the bridge                     *)

\* C35: the outcome request_approval returns for a request is a decision that was
\* taken on that very request, never one taken on another request or on none; and
\* a decision taken on the request while its worker is inside wait is the outcome.
CexC35 ==
    returned.request # NoRequest =>
        LET n == Len(returned.deposits) IN
        /\ n > 0 => returned.info[n].request = returned.request
        /\ \A i \in 1..n :
              (returned.info[i].request = returned.request /\ returned.info[i].waiting)
                 => returned.value = returned.deposits[i]


-----------------------------------------------------------------------------
(* Properties of the diff branch of apply_patch                              *)

\* C31: applying a one-hunk diff that describes the change from A to B to the
\* original A leaves exactly B in the file (added lines in, deleted lines out,
\* context lines and the lines outside the hunk kept); a diff without a valid hunk
\* header fails the patch of the file and leaves the file as it was.
CexC31 ==
    diff_outcome.done =>
        IF diff_given.valid
        THEN /\ ~diff_outcome.failed
             /\ diff_outcome.content = Split(Described(diff_original, diff_given))
        ELSE /\ diff_outcome.failed
             /\ diff_outcome.content = Split(diff_original)


-----------------------------------------------------------------------------
(* Properties of the issues table                                            *)

\* C34: an issue changes status at most once: once it is RESOLVED (or WONTFIX) it is
\* terminal, so resolve_issue on it leaves its status, resolution and resolved_at
\* as they are.
CexC34 ==
    [][\A i \in 1..Len(issue_rows) :
          issue_rows[i].status # "OPEN" =>
             /\ issue_rows'[i].status = issue_rows[i].status
             /\ issue_rows'[i].resolution = issue_rows[i].resolution
             /\ issue_rows'[i].resolved_at = issue_rows[i].resolved_at]_vars


\* context.py:167-171, 66-71: build puts get_open_issues() into the pack as it comes
\* and to_prompt renders open_issues[:3]
IssuesShown(rows) ==
    LET open == get_open_issues(rows)
    IN SubSeq(open, 1, IF Len(open) < 3 THEN Len(open) ELSE 3)

IssuesOmitted(rows) ==
    LET open == get_open_issues(rows)
    IN SubSeq(open, Len(IssuesShown(rows)) + 1, Len(open))

\* The rank the severities have by their meaning
SeverityRank(severity) ==
    CASE severity = "LOW" -> 1
      [] severity = "MEDIUM" -> 2
      [] severity = "HIGH" -> 3
      [] severity = "CRITICAL" -> 4

\* C40: when more than 3 issues are open, the 3 that to_prompt() shows are the
\* highest-severity ones (CRITICAL before HIGH before MEDIUM before LOW): no shown
\* issue has a lower severity than an omitted one.
CexC40 ==
    \A i \in 1..Len(IssuesShown(issue_rows)), j \in 1..Len(IssuesOmitted(issue_rows)) :
        SeverityRank(IssuesShown(issue_rows)[i].severity)
            >= SeverityRank(IssuesOmitted(issue_rows)[j].severity)


-----------------------------------------------------------------------------
(* Properties of the context pack                                            *)

\* C32: ContextBuilder.build always returns a ContextPack and never raises, whatever
\* the governance documents (present, absent, unreadable) and whatever the outcome of
\* the version-control status query; when a source is absent or fails, its field
\* holds a fixed non-empty placeholder text.
CexC32 ==
    ctx_env # NoEnvironment =>
        /\ ctx_outcome.kind = "pack"
        /\ (ctx_env.handover # "present" /\ ctx_env.constitution # "present")
              => ctx_outcome.pack.project_state = <<"(No SSOT documents found)">>
        /\ ctx_env.git \in {"not a repository", "timeout", "tool missing"}
              => ctx_outcome.pack.recent_changes # ""


\* The section headings of a prompt, in the order of the specification
SectionOrder ==
    << <<"[PROJECT STATE]">>, <<"[CURRENT TASK]">>, <<"[RELATED FILES]">>,
       <<"[OPEN ISSUES]">>, <<"[RECENT CHANGES]">>, <<"[RECENT CONVERSATION]">> >>

Lines(rendered) == {rendered[i] : i \in 1..Len(rendered)}

IsHeading(line) == line \in Lines(SectionOrder)

IsIssueLine(line) == Len(line) = 4 /\ line[1] = "- ["

IsTurnLine(line) == Len(line) = 3 /\ line[2] = ": "

\* The headings a pack calls for: project state always, the others when the pack
\* has something for them
Called(pack, heading) ==
    CASE heading = <<"[PROJECT STATE]">> -> TRUE
      [] heading = <<"[CURRENT TASK]">> -> pack.current_task # ""
      [] heading = <<"[RELATED FILES]">> -> pack.related_files # <<>>
      [] heading = <<"[OPEN ISSUES]">> -> pack.open_issues # <<>>
      [] heading = <<"[RECENT CHANGES]">> -> pack.recent_changes # ""
      [] heading = <<"[RECENT CONVERSATION]">> -> pack.recent_turns # <<>>

\* C33: to_prompt() renders the sections of every pack in the fixed order project
\* state, current task, related files, open issues, recent changes, recent
\* conversation; it renders at most 3 open issues and at most 3 turns, the turns
\* being the last 3 of the pack in the order of the pack (oldest first).
ThmC33 ==
    ctx_prompt # NotRendered =>
        LET pack == ctx_outcome.pack
            headings == SelectSeq(ctx_prompt, IsHeading)
            issues == SelectSeq(ctx_prompt, IsIssueLine)
            turns == SelectSeq(ctx_prompt, IsTurnLine)
            CalledFor(heading) == Called(pack, heading)
            kept == IF Len(pack.recent_turns) < 3 THEN Len(pack.recent_turns) ELSE 3
        IN /\ headings = SelectSeq(SectionOrder, CalledFor)
           /\ Len(issues) <= 3
           /\ Len(issues) = (IF Len(pack.open_issues) < 3 THEN Len(pack.open_issues) ELSE 3)
           /\ \A i \in 1..Len(issues) : issues[i][4] = pack.open_issues[i].title
           /\ Len(turns) = kept
           /\ \A i \in 1..kept :
                 turns[i][3] = pack.recent_turns[Len(pack.recent_turns) - kept + i].content

\* a rendered pack with every section, more than 3 issues and more than 3 turns
WitC33 ==
    /\ ctx_prompt # NotRendered
    /\ Len(ctx_outcome.pack.open_issues) > 3
    /\ Len(ctx_outcome.pack.recent_turns) > 3
    /\ ctx_outcome.pack.current_task # ""
    /\ ctx_outcome.pack.related_files # <<>>
    /\ ctx_outcome.pack.recent_changes # ""

=============================================================================
